---- MODULE Spec2Model ----
(***************************************************************************)
(* Authentication core of athlo: the JSON record store                     *)
(* (repositories/json_repository.py) and the auth service                  *)
(* (services/auth_service.py).                                             *)
(*                                                                         *)
(* The specifications share the state:                                     *)
(*   Spec      every service call runs to completion before the next one   *)
(*             starts (one request at a time);                             *)
(*   ConcSpec  calls of several request handlers interleave at the store's *)
(*             file reads (_read_all) and file writes (_write_all);        *)
(*   TokenSpec, RepoSpec  the access-token functions and the store's       *)
(*             operations on their own;                                    *)
(*   ProfileSpec, AccessSpec  the profile route and get_current_user       *)
(*             (api/routes/auth.py, api/deps.py);                          *)
(*   GoalSpec, DivisionSpec  the goal and workout-division routes          *)
(*             (api/routes/goals.py, api/routes/strength.py).              *)
(*                                                                         *)
(* Values.  An Optional[T] entity returned by the store is a sequence of   *)
(* length 0 or 1; an Optional[str] field holds the string None.  UUIDs and *)
(* the strings of secrets.token_urlsafe are fresh numbers drawn from a     *)
(* counter.  A stored record is kept in entity form: the JSON encoding     *)
(* (UUID as canonical string, datetime as ISO string) is one-to-one on     *)
(* these values.  created_at is written once at construction and never    *)
(* read or written again, and is left out.  Time is in minutes.            *)
(***************************************************************************)
EXTENDS Integers, Sequences, FiniteSets, TLC

\* ------------------------------------------------------------------ bounds
\* calls that change a stored record, and clock advances, in one run
MaxSteps == 5
\* request handlers running at once in ConcSpec, each serving one call
NProcs == 2
\* records a collection holds in RepoSpec
MaxRecords == 2
\* goals created in one run of GoalSpec
MaxGoals == 2

\* --------------------------------------------------- program constants
access_token_expire_minutes == 15
refresh_token_expire_days == 7

AccessLifetime == access_token_expire_minutes
RefreshLifetime == refresh_token_expire_days * 24 * 60

\* ------------------------------------------------------------------ inputs
None == "None"
Emails == {"a@x.com", "b@x.com"}
\* passwords of 7, 8 and 9 characters
Passwords == {"passwd7", "password", "password1"}
Names == {"Ana"}
\* PUT /users/me bodies: a change of both fields, an invalid unit, no change
ProfileRequests ==
    {[name |-> "Bea", preferred_units |-> "imperial"],
     [name |-> None, preferred_units |-> "stone"],
     [name |-> None, preferred_units |-> None]}
\* answers of Google's tokeninfo endpoint: status and body
GoogleResponses ==
    {[status |-> 400, sub |-> None, email |-> None, name |-> None, picture |-> None, aud |-> None],
     [status |-> 200, sub |-> "g1", email |-> "a@x.com", name |-> "Ana", picture |-> "pic", aud |-> "app"],
     [status |-> 200, sub |-> "g1", email |-> None, name |-> None, picture |-> None, aud |-> "app"],
     [status |-> 200, sub |-> None, email |-> "b@x.com", name |-> "Bea", picture |-> None, aud |-> "other"]}
\* the instants the clock visits: issue time, and the refresh lifetime's
\* boundary and the minute after it
Instants == {0, RefreshLifetime, RefreshLifetime + 1}

VARIABLES
    users,      \* users.json: sequence of User records
    tokens,     \* refresh_tokens.json: sequence of RefreshToken records
    now,        \* the clock (datetime.utcnow / datetime.now)
    nextUid,    \* number of uuid4 draws for new entities (users, goals, divisions)
    nextTok,    \* number of refresh tokens generated
    redeemed,   \* history: strings redeemed by a refresh or revoked by a logout
    steps,      \* calls that changed a stored record, and clock advances, so far
    last,       \* the response of the call being answered: [op, args, err, ret]
    pc,         \* ConcSpec: where each request handler stands in its call
    loc,        \* ConcSpec: each request handler's local variables
    goals,      \* goals.json: sequence of Goal records
    divisions   \* workout_divisions.json: sequence of WorkoutDivision records

vars == <<users, tokens, now, nextUid, nextTok, redeemed, steps, last, pc, loc,
          goals, divisions>>

\* ------------------------------------------------------- error messages
OK == "ok"
ErrEmailTaken == "Email already registered"
ErrWeakPassword == "Password must be at least 8 characters"
ErrInvalidCredentials == "Invalid email or password"
ErrDeactivated == "Account is deactivated"
ErrInvalidRefresh == "Invalid refresh token"
ErrRevoked == "Refresh token has been revoked"
ErrExpired == "Refresh token has expired"
ErrUserGone == "User not found or inactive"
ErrUserNotFound == "User not found"
ErrWrongPassword == "Current password is incorrect"
ErrWeakNewPassword == "New password must be at least 8 characters"
ErrBadUnits == "preferred_units must be 'metric' or 'imperial'"
ErrGoogleToken == "Invalid Google token"
ErrAudience == "Token was not issued for this application"
ErrNoEmail == "Could not retrieve email from Google"
\* not an AuthError: the interpreter's exception for a missing attribute
AttributeError == "AttributeError"

\* ---------------------------------------------------- callers' inputs
Procs == 1 .. NProcs
\* a handler's locals before its call
NoLocals ==
    [op |-> "none", args |-> <<>>, entity |-> <<>>, records |-> <<>>, repo |-> "none",
     err |-> OK, ret |-> <<>>]

\* refresh-token strings a client can present: those issued so far, and 0,
\* which is never issued
TokenStrings == 0 .. nextTok
\* user ids a caller can name: those drawn so far, and 0, which is never drawn
UserIds == 0 .. nextUid

\* ------------------------------------------------------- JsonRepository
\* index of the first record with this id, 0 if none
IndexOf(records, id) ==
    IF \E i \in DOMAIN records : records[i].id = id
    THEN CHOOSE i \in DOMAIN records :
            /\ records[i].id = id
            /\ \A j \in DOMAIN records : records[j].id = id => i <= j
    ELSE 0

get(records, id) ==
    IF IndexOf(records, id) = 0 THEN <<>> ELSE <<records[IndexOf(records, id)]>>

\* a slip: only the new entity is written, the list read before is dropped
create_alone(records, entity) == <<entity>>

create(records, entity) == Append(records, entity)

\* a slip: the caller's timestamp is stored
Stamped_as_supplied(entity, t) == entity

\* the record written in place of the stored one
Stamped(entity, t) == [entity EXCEPT !.updated_at = t]

\* a slip: update never misses
CanUpdate_always(records, entity) == TRUE

\* update raises ValueError when no record has the entity's id
CanUpdate(records, entity) == IndexOf(records, entity.id) # 0

\* a slip: the first record is replaced, whatever its id
update_first(records, entity, t) ==
    [i \in DOMAIN records |-> IF i = 1 THEN Stamped(entity, t) ELSE records[i]]

update(records, entity, t) ==
    [i \in DOMAIN records |->
        IF i = IndexOf(records, entity.id) THEN Stamped(entity, t) ELSE records[i]]

delete(records, id) == SelectSeq(records, LAMBDA r : r.id # id)

\* str(uuid): the canonical string of a UUID
uuid_str(id) == ToString(id)

\* the entity fields that hold a UUID, and those that hold a datetime
UuidFields == {"id", "user_id"}
DatetimeFields == {"expires_at", "updated_at"}

\* find_by's test of one criterion, record_value != value negated.  The file
\* holds the JSON form of an entity (model_dump_json): a UUID as its canonical
\* string, a datetime as its ISO string, other values as they are.  A
\* supplied UUID is turned into its string before the comparison; a supplied
\* datetime is not, and no string equals a datetime.  record.get gives None
\* for a field the record does not have.
FieldMatches(record, key, value) ==
    IF key \notin DOMAIN record THEN value = None
    ELSE IF key \in UuidFields THEN uuid_str(record[key]) = uuid_str(value)
    ELSE IF key \in DatetimeFields THEN FALSE
    ELSE record[key] = value

\* kwargs is a record of field values; every criterion must match
find_by(records, kwargs) ==
    SelectSeq(records, LAMBDA r : \A k \in DOMAIN kwargs : FieldMatches(r, k, kwargs[k]))

find_one_by(records, kwargs) ==
    IF find_by(records, kwargs) = <<>> THEN <<>> ELSE <<Head(find_by(records, kwargs))>>

\* --------------------------------------------------------------- entities
\* a slip: the account is created inactive
User_inactive(id, email, password_hash, name, google_id, auth_provider, avatar_url, t) ==
    [id |-> id, email |-> email, password_hash |-> password_hash, name |-> name,
     preferred_units |-> "metric", is_active |-> FALSE, google_id |-> google_id,
     auth_provider |-> auth_provider, avatar_url |-> avatar_url, updated_at |-> t]

User(id, email, password_hash, name, google_id, auth_provider, avatar_url, t) ==
    [id |-> id, email |-> email, password_hash |-> password_hash, name |-> name,
     preferred_units |-> "metric", is_active |-> TRUE, google_id |-> google_id,
     auth_provider |-> auth_provider, avatar_url |-> avatar_url, updated_at |-> t]

RefreshToken(id, user_id, token, expires_at, t) ==
    [id |-> id, user_id |-> user_id, token |-> token, expires_at |-> expires_at,
     revoked |-> FALSE, updated_at |-> t]

\* a slip: the Settings class defines google_client_id, with no value
settings_with_client_id ==
    [app_name |-> "Athlo", debug |-> FALSE, jwt_secret_key |-> "jwt_secret_key",
     jwt_algorithm |-> "HS256",
     access_token_expire_minutes |-> access_token_expire_minutes,
     refresh_token_expire_days |-> refresh_token_expire_days, data_dir |-> "data",
     google_client_id |-> None]

\* the fields config.py's Settings class defines
settings ==
    [app_name |-> "Athlo", debug |-> FALSE, jwt_secret_key |-> "jwt_secret_key",
     jwt_algorithm |-> "HS256",
     access_token_expire_minutes |-> access_token_expire_minutes,
     refresh_token_expire_days |-> refresh_token_expire_days, data_dir |-> "data"]

\* ------------------------------------------------------- credentials, tokens
\* bcrypt: the salt is left out, only verification is modelled
hash_password(password) == "bcrypt$" \o password

\* passlib's verify answers False for a hash of None
verify_password(plain_password, hashed_password) ==
    IF hashed_password = None THEN FALSE ELSE hashed_password = hash_password(plain_password)

\* the UUIDs that can be drawn within a run's budget, and 0
UUIDs == 0 .. MaxSteps + 1

\* UUID(sub): the UUID a canonical string stands for; nothing stands for the
\* ValueError raised on any other string
UUID(sub) ==
    IF \E u \in UUIDs : uuid_str(u) = sub
    THEN <<CHOOSE u \in UUIDs : uuid_str(u) = sub>>
    ELSE <<>>

\* how a call ends: with a returned value, or with a raised exception
Returned(value) == [exc |-> None, value |-> value]
Raised(exc) == [exc |-> exc, value |-> <<>>]

\* a slip: the token is encoded with the wrong type claim
create_access_token_wrong_type(user_id, t) ==
    [sub |-> uuid_str(user_id), exp |-> t + AccessLifetime, type |-> "refresh",
     key |-> settings.jwt_secret_key]

create_access_token(user_id, t) ==
    [sub |-> uuid_str(user_id), exp |-> t + AccessLifetime, type |-> "access",
     key |-> settings.jwt_secret_key]

\* a slip: a token is accepted only while its user holds an unrevoked
\* refresh token
decode_access_token_session_bound(token, t) ==
    IF token.key # settings.jwt_secret_key \/ token.exp < t THEN Returned(<<>>)
    ELSE IF token.type # "access" THEN Returned(<<>>)
    ELSE IF token.sub \in {None, ""} THEN Returned(<<>>)
    ELSE IF UUID(token.sub) = <<>> THEN Raised("ValueError")
    ELSE IF \E i \in DOMAIN tokens :
               tokens[i].user_id = Head(UUID(token.sub)) /\ ~tokens[i].revoked
    THEN Returned(UUID(token.sub))
    ELSE Returned(<<>>)

\* a slip: the exp claim is not looked at
decode_access_token_unexpiring(token, t) ==
    IF token.key # settings.jwt_secret_key THEN Returned(<<>>)
    ELSE IF token.type # "access" THEN Returned(<<>>)
    ELSE IF token.sub \in {None, ""} THEN Returned(<<>>)
    ELSE IF UUID(token.sub) = <<>> THEN Raised("ValueError")
    ELSE Returned(UUID(token.sub))

\* jwt.decode raises a JWTError, which is caught, for a token that is no JWT,
\* for a signature made with another key and for an exp before the current
\* time; UUID(user_id) raises a ValueError, which is not caught
decode_access_token(token, t) ==
    IF token.key # settings.jwt_secret_key \/ token.exp < t THEN Returned(<<>>)
    ELSE IF token.type # "access" THEN Returned(<<>>)
    ELSE IF token.sub \in {None, ""} THEN Returned(<<>>)
    ELSE IF UUID(token.sub) = <<>> THEN Raised("ValueError")
    ELSE Returned(UUID(token.sub))

\* a slip: the new token is returned but never stored
create_refresh_token_unsaved(records, n, user_id, t) ==
    LET entity == RefreshToken(n + 1, user_id, n + 1, t + RefreshLifetime, t)
    IN [token_str |-> n + 1, entity |-> entity, tokens |-> records]

\* create_refresh_token: the string, the entity and the collection after create
create_refresh_token(records, n, user_id, t) ==
    LET entity == RefreshToken(n + 1, user_id, n + 1, t + RefreshLifetime, t)
    IN [token_str |-> n + 1, entity |-> entity, tokens |-> create(records, entity)]

\* a slip: the flag is left as it was
Revoke_forgotten(token) == token

\* token.revoked = True
Revoke(token) == [token EXCEPT !.revoked = TRUE]

\* a slip: the expiry is never looked at
IsExpired_never(token, t) == FALSE

\* token.expires_at < datetime.utcnow()
IsExpired(token, t) == token.expires_at < t

Call(op, args, err, ret) == [op |-> op, args |-> args, err |-> err, ret |-> ret]

\* no call is being answered: the next request may start
Idle == last.op = "idle"

\* a call that changes a stored record takes one step of the run's budget
Budget ==
    /\ steps' = IF <<users', tokens'>> # <<users, tokens>> THEN steps + 1 ELSE steps
    /\ steps' <= MaxSteps

\* ------------------------------------------------------------- the service
\* a slip: the password is validated before the email is looked up
register_user_password_first(email, password, name) ==
    IF Len(password) < 8
    THEN [err |-> ErrWeakPassword, users |-> users, ret |-> <<>>]
    ELSE IF find_one_by(users, [email |-> email]) # <<>>
    THEN [err |-> ErrEmailTaken, users |-> users, ret |-> <<>>]
    ELSE LET user == User(nextUid + 1, email, hash_password(password), name,
                          None, "email", None, now)
         IN [err |-> OK, users |-> create(users, user), ret |-> <<user.id>>]

\* register_user: the error and the users after the call
register_user(email, password, name) ==
    IF find_one_by(users, [email |-> email]) # <<>>
    THEN [err |-> ErrEmailTaken, users |-> users, ret |-> <<>>]
    ELSE IF Len(password) < 8
    THEN [err |-> ErrWeakPassword, users |-> users, ret |-> <<>>]
    ELSE LET user == User(nextUid + 1, email, hash_password(password), name,
                          None, "email", None, now)
         IN [err |-> OK, users |-> create(users, user), ret |-> <<user.id>>]

Register(email, password, name) ==
    LET r == register_user(email, password, name) IN
    /\ Idle
    /\ users' = r.users
    /\ nextUid' = IF r.err = OK THEN nextUid + 1 ELSE nextUid
    /\ last' = Call("register", <<email, password, name>>, r.err, r.ret)
    /\ UNCHANGED <<tokens, now, nextTok, redeemed, pc, loc, goals, divisions>>
    /\ Budget

\* a slip: the active flag is looked at before the password
login_user_active_first(email, password) ==
    LET found == find_one_by(users, [email |-> email]) IN
    IF found = <<>>
    THEN [err |-> ErrInvalidCredentials, tokens |-> tokens, ret |-> <<>>]
    ELSE IF ~Head(found).is_active
    THEN [err |-> ErrDeactivated, tokens |-> tokens, ret |-> <<>>]
    ELSE IF ~verify_password(password, Head(found).password_hash)
    THEN [err |-> ErrInvalidCredentials, tokens |-> tokens, ret |-> <<>>]
    ELSE LET user == Head(found)
             access_token == create_access_token(user.id, now)
             made == create_refresh_token(tokens, nextTok, user.id, now)
         IN [err |-> OK, tokens |-> made.tokens,
             ret |-> <<user.id, access_token, made.token_str>>]

\* a slip: the access token is encoded for another user id
login_user_other_sub(email, password) ==
    LET found == find_one_by(users, [email |-> email]) IN
    IF found = <<>> \/ ~verify_password(password, Head(found).password_hash)
    THEN [err |-> ErrInvalidCredentials, tokens |-> tokens, ret |-> <<>>]
    ELSE IF ~Head(found).is_active
    THEN [err |-> ErrDeactivated, tokens |-> tokens, ret |-> <<>>]
    ELSE LET user == Head(found)
             access_token == create_access_token(user.id + 1, now)
             made == create_refresh_token(tokens, nextTok, user.id, now)
         IN [err |-> OK, tokens |-> made.tokens,
             ret |-> <<user.id, access_token, made.token_str>>]

\* a slip: an inactive account logs in like an active one
login_user_active_unchecked(email, password) ==
    LET found == find_one_by(users, [email |-> email]) IN
    IF found = <<>> \/ ~verify_password(password, Head(found).password_hash)
    THEN [err |-> ErrInvalidCredentials, tokens |-> tokens, ret |-> <<>>]
    ELSE LET user == Head(found)
             access_token == create_access_token(user.id, now)
             made == create_refresh_token(tokens, nextTok, user.id, now)
         IN [err |-> OK, tokens |-> made.tokens,
             ret |-> <<user.id, access_token, made.token_str>>]

login_user(email, password) ==
    LET found == find_one_by(users, [email |-> email]) IN
    IF found = <<>> \/ ~verify_password(password, Head(found).password_hash)
    THEN [err |-> ErrInvalidCredentials, tokens |-> tokens, ret |-> <<>>]
    ELSE IF ~Head(found).is_active
    THEN [err |-> ErrDeactivated, tokens |-> tokens, ret |-> <<>>]
    ELSE LET user == Head(found)
             access_token == create_access_token(user.id, now)
             made == create_refresh_token(tokens, nextTok, user.id, now)
         IN [err |-> OK, tokens |-> made.tokens,
             ret |-> <<user.id, access_token, made.token_str>>]

Login(email, password) ==
    LET r == login_user(email, password) IN
    /\ Idle
    /\ tokens' = r.tokens
    /\ nextTok' = IF r.err = OK THEN nextTok + 1 ELSE nextTok
    /\ last' = Call("login", <<email, password>>, r.err, r.ret)
    /\ UNCHANGED <<users, now, nextUid, redeemed, pc, loc, goals, divisions>>
    /\ Budget

\* a slip: the token's owner is not looked up
refresh_access_token_owner_unchecked(refresh_token_str) ==
    LET found == find_one_by(tokens, [token |-> refresh_token_str]) IN
    IF found = <<>>
    THEN [err |-> ErrInvalidRefresh, tokens |-> tokens, ret |-> <<>>]
    ELSE IF Head(found).revoked
    THEN [err |-> ErrRevoked, tokens |-> tokens, ret |-> <<>>]
    ELSE IF IsExpired(Head(found), now)
    THEN [err |-> ErrExpired, tokens |-> tokens, ret |-> <<>>]
    ELSE LET token == Head(found)
             revoked == update(tokens, Revoke(token), now)
             new_access_token == create_access_token(token.user_id, now)
             made == create_refresh_token(revoked, nextTok, token.user_id, now)
         IN [err |-> OK, tokens |-> made.tokens,
             ret |-> <<new_access_token, made.token_str>>]

\* a slip: the presented token is revoked before its owner is looked up
refresh_access_token_revoke_first(refresh_token_str) ==
    LET found == find_one_by(tokens, [token |-> refresh_token_str]) IN
    IF found = <<>>
    THEN [err |-> ErrInvalidRefresh, tokens |-> tokens, ret |-> <<>>]
    ELSE IF Head(found).revoked
    THEN [err |-> ErrRevoked, tokens |-> tokens, ret |-> <<>>]
    ELSE IF IsExpired(Head(found), now)
    THEN [err |-> ErrExpired, tokens |-> tokens, ret |-> <<>>]
    ELSE LET token == Head(found)
             user == get(users, token.user_id)
             revoked == update(tokens, Revoke(token), now)
         IN IF user = <<>> \/ ~Head(user).is_active
            THEN [err |-> ErrUserGone, tokens |-> revoked, ret |-> <<>>]
            ELSE LET new_access_token == create_access_token(Head(user).id, now)
                     made == create_refresh_token(revoked, nextTok, Head(user).id, now)
                 IN [err |-> OK, tokens |-> made.tokens,
                     ret |-> <<new_access_token, made.token_str>>]

refresh_access_token(refresh_token_str) ==
    LET found == find_one_by(tokens, [token |-> refresh_token_str]) IN
    IF found = <<>>
    THEN [err |-> ErrInvalidRefresh, tokens |-> tokens, ret |-> <<>>]
    ELSE IF Head(found).revoked
    THEN [err |-> ErrRevoked, tokens |-> tokens, ret |-> <<>>]
    ELSE IF IsExpired(Head(found), now)
    THEN [err |-> ErrExpired, tokens |-> tokens, ret |-> <<>>]
    ELSE LET token == Head(found)
             user == get(users, token.user_id)
         IN IF user = <<>> \/ ~Head(user).is_active
            THEN [err |-> ErrUserGone, tokens |-> tokens, ret |-> <<>>]
            ELSE LET revoked == update(tokens, Revoke(token), now)
                     new_access_token == create_access_token(Head(user).id, now)
                     made == create_refresh_token(revoked, nextTok, Head(user).id, now)
                 IN [err |-> OK, tokens |-> made.tokens,
                     ret |-> <<new_access_token, made.token_str>>]

RefreshTokens(refresh_token_str) ==
    LET r == refresh_access_token(refresh_token_str) IN
    /\ Idle
    /\ tokens' = r.tokens
    /\ nextTok' = IF r.err = OK THEN nextTok + 1 ELSE nextTok
    /\ redeemed' = IF r.err = OK THEN redeemed \cup {refresh_token_str} ELSE redeemed
    /\ last' = Call("refresh", <<refresh_token_str>>, r.err, r.ret)
    /\ UNCHANGED <<users, now, nextUid, pc, loc, goals, divisions>>
    /\ Budget

\* a slip: every token of the same owner is revoked
logout_user_all_sessions(refresh_token_str) ==
    LET found == find_one_by(tokens, [token |-> refresh_token_str]) IN
    IF found # <<>> /\ ~Head(found).revoked
    THEN [ret |-> TRUE,
          tokens |-> [i \in DOMAIN tokens |->
                         IF tokens[i].user_id = Head(found).user_id
                         THEN Stamped(Revoke(tokens[i]), now) ELSE tokens[i]]]
    ELSE [ret |-> FALSE, tokens |-> tokens]

logout_user(refresh_token_str) ==
    LET found == find_one_by(tokens, [token |-> refresh_token_str]) IN
    IF found # <<>> /\ ~Head(found).revoked
    THEN [ret |-> TRUE, tokens |-> update(tokens, Revoke(Head(found)), now)]
    ELSE [ret |-> FALSE, tokens |-> tokens]

Logout(refresh_token_str) ==
    LET r == logout_user(refresh_token_str) IN
    /\ Idle
    /\ tokens' = r.tokens
    /\ redeemed' = IF r.ret THEN redeemed \cup {refresh_token_str} ELSE redeemed
    /\ last' = Call("logout", <<refresh_token_str>>, OK, <<r.ret>>)
    /\ UNCHANGED <<users, now, nextUid, nextTok, pc, loc, goals, divisions>>
    /\ Budget

\* a slip: the new hash is computed but the record is not stored
change_password_unsaved(user_id, current_password, new_password) ==
    LET user == get(users, user_id) IN
    IF user = <<>>
    THEN [err |-> ErrUserNotFound, users |-> users]
    ELSE IF ~verify_password(current_password, Head(user).password_hash)
    THEN [err |-> ErrWrongPassword, users |-> users]
    ELSE IF Len(new_password) < 8
    THEN [err |-> ErrWeakNewPassword, users |-> users]
    ELSE [err |-> OK, users |-> users]

\* a slip: the new password's length is tested before the current password
change_password_weak_first(user_id, current_password, new_password) ==
    LET user == get(users, user_id) IN
    IF user = <<>>
    THEN [err |-> ErrUserNotFound, users |-> users]
    ELSE IF Len(new_password) < 8
    THEN [err |-> ErrWeakNewPassword, users |-> users]
    ELSE IF ~verify_password(current_password, Head(user).password_hash)
    THEN [err |-> ErrWrongPassword, users |-> users]
    ELSE [err |-> OK,
          users |-> update(users,
                           [Head(user) EXCEPT !.password_hash = hash_password(new_password)],
                           now)]

\* change_password: the error and the users after the call
change_password(user_id, current_password, new_password) ==
    LET user == get(users, user_id) IN
    IF user = <<>>
    THEN [err |-> ErrUserNotFound, users |-> users]
    ELSE IF ~verify_password(current_password, Head(user).password_hash)
    THEN [err |-> ErrWrongPassword, users |-> users]
    ELSE IF Len(new_password) < 8
    THEN [err |-> ErrWeakNewPassword, users |-> users]
    ELSE [err |-> OK,
          users |-> update(users,
                           [Head(user) EXCEPT !.password_hash = hash_password(new_password)],
                           now)]

\* a slip: a password change revokes the user's refresh tokens
ChangePassword_revoking(user_id, current_password, new_password) ==
    LET r == change_password(user_id, current_password, new_password) IN
    /\ Idle
    /\ users' = r.users
    /\ tokens' = IF r.err # OK THEN tokens
                 ELSE [i \in DOMAIN tokens |->
                          IF tokens[i].user_id = user_id THEN Revoke(tokens[i])
                          ELSE tokens[i]]
    /\ last' = Call("change_password", <<user_id, current_password, new_password>>, r.err, <<>>)
    /\ UNCHANGED <<now, nextUid, nextTok, redeemed, pc, loc, goals, divisions>>
    /\ Budget

ChangePassword(user_id, current_password, new_password) ==
    LET r == change_password(user_id, current_password, new_password) IN
    /\ Idle
    /\ users' = r.users
    /\ last' = Call("change_password", <<user_id, current_password, new_password>>, r.err, <<>>)
    /\ UNCHANGED <<tokens, now, nextUid, nextTok, redeemed, pc, loc, goals, divisions>>
    /\ Budget

\* delete_user: whether a record was removed, and the users after the call
delete_user(user_id) ==
    [ret |-> Len(delete(users, user_id)) < Len(users), users |-> delete(users, user_id)]

DeleteAccount(user_id) ==
    LET r == delete_user(user_id) IN
    /\ Idle
    /\ users' = r.users
    /\ last' = Call("delete_user", <<user_id>>, OK, <<r.ret>>)
    /\ UNCHANGED <<tokens, now, nextUid, nextTok, redeemed, pc, loc, goals, divisions>>
    /\ Budget

\* update_user: user_repo.update(user)
update_user(records, user, t) == update(records, user, t)

\* PUT /users/me for the user get_current_user resolved from the bearer's id
update_profile(user_id, request) ==
    LET user == get(users, user_id) IN
    IF user = <<>>
    THEN [err |-> ErrUserNotFound, users |-> users]
    ELSE IF ~Head(user).is_active
    THEN [err |-> ErrDeactivated, users |-> users]
    ELSE IF request.preferred_units # None
            /\ request.preferred_units \notin {"metric", "imperial"}
    THEN [err |-> ErrBadUnits, users |-> users]
    ELSE LET named == IF request.name # None
                      THEN [Head(user) EXCEPT !.name = request.name] ELSE Head(user)
             current_user == IF request.preferred_units # None
                      THEN [named EXCEPT !.preferred_units = request.preferred_units]
                      ELSE named
         IN [err |-> OK, users |-> update_user(users, current_user, now)]

UpdateProfile(user_id, request) ==
    LET r == update_profile(user_id, request) IN
    /\ Idle
    /\ users' = r.users
    /\ last' = Call("update_profile", <<user_id, request>>, r.err, <<>>)
    /\ UNCHANGED <<tokens, now, nextUid, nextTok, redeemed, pc, loc, goals, divisions>>
    /\ Budget

\* An account is deactivated: its record is stored again with is_active false.
Deactivate(user_id) ==
    /\ Idle
    /\ get(users, user_id) # <<>>
    /\ Head(get(users, user_id)).is_active
    /\ users' = update_user(users, [Head(get(users, user_id)) EXCEPT !.is_active = FALSE], now)
    /\ UNCHANGED <<tokens, now, nextUid, nextTok, redeemed, last, pc, loc, goals, divisions>>
    /\ Budget

\* verify_google_token on the endpoint's answer: the error, or the claim
verify_google_token(response) ==
    IF response.status # 200
    THEN [err |-> ErrGoogleToken]
    ELSE IF "google_client_id" \notin DOMAIN settings
    THEN [err |-> AttributeError]
    ELSE IF settings["google_client_id"] # None /\ response.aud # settings["google_client_id"]
    THEN [err |-> ErrAudience]
    ELSE [err |-> OK, sub |-> response.sub, email |-> response.email,
          name |-> response.name, picture |-> response.picture]

\* login_with_google: the error, the users and tokens after the call
login_with_google(response) ==
    LET google_user == verify_google_token(response) IN
    IF google_user.err # OK
    THEN [err |-> google_user.err, users |-> users, tokens |-> tokens, ret |-> <<>>, made |-> 0]
    ELSE IF google_user.email = None
    THEN [err |-> ErrNoEmail, users |-> users, tokens |-> tokens, ret |-> <<>>, made |-> 0]
    ELSE
    LET by_id == find_one_by(users, [google_id |-> google_user.sub])
        by_email == find_one_by(users, [email |-> google_user.email])
        linked == IF google_user.picture # None
                  THEN [Head(by_email) EXCEPT !.google_id = google_user.sub,
                                              !.auth_provider = "google",
                                              !.avatar_url = google_user.picture]
                  ELSE [Head(by_email) EXCEPT !.google_id = google_user.sub,
                                              !.auth_provider = "google"]
        created == User(nextUid + 1, google_user.email, None, google_user.name,
                        google_user.sub, "google", google_user.picture, now)
        user == IF by_id # <<>> THEN Head(by_id)
                ELSE IF by_email # <<>> THEN linked ELSE created
        stored == IF by_id # <<>> THEN users
                  ELSE IF by_email # <<>> THEN update(users, linked, now)
                  ELSE create(users, created)
        made == IF by_id = <<>> /\ by_email = <<>> THEN 1 ELSE 0
    IN IF ~user.is_active
       THEN [err |-> ErrDeactivated, users |-> stored, tokens |-> tokens, ret |-> <<>>,
             made |-> made]
       ELSE LET access_token == create_access_token(user.id, now)
                issued == create_refresh_token(tokens, nextTok, user.id, now)
            IN [err |-> OK, users |-> stored, tokens |-> issued.tokens,
                ret |-> <<user.id, access_token, issued.token_str>>, made |-> made]

LoginWithGoogle(response) ==
    LET r == login_with_google(response) IN
    /\ Idle
    /\ users' = r.users
    /\ tokens' = r.tokens
    /\ nextUid' = nextUid + r.made
    /\ nextTok' = IF r.err = OK THEN nextTok + 1 ELSE nextTok
    /\ last' = Call("login_with_google", <<response>>, r.err, r.ret)
    /\ UNCHANGED <<now, redeemed, pc, loc, goals, divisions>>
    /\ Budget

\* the response reaches the caller; the next request may start
Respond ==
    /\ ~Idle
    /\ last' = Call("idle", <<>>, OK, <<>>)
    /\ UNCHANGED <<users, tokens, now, nextUid, nextTok, redeemed, steps, pc, loc, goals, divisions>>

\* the clock advances to a later instant
Tick ==
    /\ Idle
    /\ steps < MaxSteps
    /\ \E t \in Instants : t > now /\ now' = t
    /\ steps' = steps + 1
    /\ UNCHANGED <<users, tokens, nextUid, nextTok, redeemed, last, pc, loc, goals, divisions>>

Init ==
    /\ users = <<>>
    /\ tokens = <<>>
    /\ now = 0
    /\ nextUid = 0
    /\ nextTok = 0
    /\ redeemed = {}
    /\ steps = 0
    /\ last = Call("idle", <<>>, OK, <<>>)
    /\ pc = [p \in Procs |-> "idle"]
    /\ loc = [p \in Procs |-> NoLocals]
    /\ goals = <<>>
    /\ divisions = <<>>

Next ==
    \/ \E e \in Emails, p \in Passwords, n \in Names : Register(e, p, n)
    \/ \E e \in Emails, p \in Passwords : Login(e, p)
    \/ \E s \in TokenStrings : RefreshTokens(s)
    \/ \E s \in TokenStrings : Logout(s)
    \/ \E u \in UserIds, c \in Passwords, p \in Passwords : ChangePassword(u, c, p)
    \/ \E u \in UserIds : DeleteAccount(u)
    \/ \E u \in UserIds, q \in ProfileRequests : UpdateProfile(u, q)
    \/ \E u \in UserIds : Deactivate(u)
    \/ \E g \in GoogleResponses : LoginWithGoogle(g)
    \/ Respond
    \/ Tick

Spec == Init /\ [][Next]_vars

\* ============================================== calls running concurrently
\* Each handler serves one call.  A call is cut at the store's file reads
\* (_read_all) and file writes (_write_all); what a handler computes between
\* two of them is part of the step that follows the read.

File(repo) == IF repo = "users" THEN users ELSE tokens

\* _write_all on the repository's file
WriteFile(repo, records) ==
    IF repo = "users"
    THEN users' = records /\ UNCHANGED tokens
    ELSE tokens' = records /\ UNCHANGED users

\* the call ends: an exception is raised or a value returned
Finish(p, err, ret) ==
    /\ pc' = [pc EXCEPT ![p] = "done"]
    /\ loc' = [loc EXCEPT ![p].err = err, ![p].ret = ret]

\* register_user up to its create: find_one_by reads users.json
CRegister(p, email, password, name) ==
    /\ pc[p] = "idle"
    /\ IF find_one_by(users, [email |-> email]) # <<>>
       THEN /\ pc' = [pc EXCEPT ![p] = "done"]
            /\ loc' = [loc EXCEPT ![p] = [@ EXCEPT !.op = "register",
                                            !.args = <<email, password, name>>,
                                            !.err = ErrEmailTaken]]
            /\ UNCHANGED nextUid
       ELSE IF Len(password) < 8
       THEN /\ pc' = [pc EXCEPT ![p] = "done"]
            /\ loc' = [loc EXCEPT ![p] = [@ EXCEPT !.op = "register",
                                            !.args = <<email, password, name>>,
                                            !.err = ErrWeakPassword]]
            /\ UNCHANGED nextUid
       ELSE /\ pc' = [pc EXCEPT ![p] = "create_read"]
            /\ loc' = [loc EXCEPT ![p] =
                    [@ EXCEPT !.op = "register", !.args = <<email, password, name>>,
                              !.repo = "users", !.ret = <<nextUid + 1>>,
                              !.entity = <<User(nextUid + 1, email, hash_password(password),
                                                name, None, "email", None, now)>>]]
            /\ nextUid' = nextUid + 1
    /\ UNCHANGED <<users, tokens, now, nextTok, redeemed, steps, last, goals, divisions>>

\* refresh_access_token up to the user lookup: find_one_by reads
\* refresh_tokens.json
CRefreshFind(p, refresh_token_str) ==
    LET found == find_one_by(tokens, [token |-> refresh_token_str])
        failed(err) ==
            /\ pc' = [pc EXCEPT ![p] = "done"]
            /\ loc' = [loc EXCEPT ![p] = [@ EXCEPT !.op = "refresh",
                                            !.args = <<refresh_token_str>>, !.err = err]]
    IN
    /\ pc[p] = "idle"
    /\ IF found = <<>> THEN failed(ErrInvalidRefresh)
       ELSE IF Head(found).revoked THEN failed(ErrRevoked)
       ELSE IF IsExpired(Head(found), now) THEN failed(ErrExpired)
       ELSE /\ pc' = [pc EXCEPT ![p] = "refresh_get_user"]
            /\ loc' = [loc EXCEPT ![p] = [@ EXCEPT !.op = "refresh",
                                            !.args = <<refresh_token_str>>,
                                            !.entity = found]]
    /\ UNCHANGED <<users, tokens, now, nextUid, nextTok, redeemed, steps, last, goals, divisions>>

\* refresh_access_token: user_repo.get reads users.json; token.revoked = True
CRefreshGetUser(p) ==
    LET user == get(users, Head(loc[p].entity).user_id) IN
    /\ pc[p] = "refresh_get_user"
    /\ IF user = <<>> \/ ~Head(user).is_active
       THEN Finish(p, ErrUserGone, <<>>)
       ELSE /\ pc' = [pc EXCEPT ![p] = "update_read"]
            /\ loc' = [loc EXCEPT ![p].repo = "tokens",
                                  ![p].entity = <<Revoke(Head(loc[p].entity))>>,
                                  ![p].ret = <<Head(user).id>>]
    /\ UNCHANGED <<users, tokens, now, nextUid, nextTok, redeemed, steps, last, goals, divisions>>

\* logout_user up to its update: find_one_by reads refresh_tokens.json
CLogoutFind(p, refresh_token_str) ==
    LET found == find_one_by(tokens, [token |-> refresh_token_str]) IN
    /\ pc[p] = "idle"
    /\ IF found # <<>> /\ ~Head(found).revoked
       THEN /\ pc' = [pc EXCEPT ![p] = "update_read"]
            /\ loc' = [loc EXCEPT ![p] = [@ EXCEPT !.op = "logout",
                                            !.args = <<refresh_token_str>>,
                                            !.repo = "tokens",
                                            !.entity = <<Revoke(Head(found))>>]]
       ELSE /\ pc' = [pc EXCEPT ![p] = "done"]
            /\ loc' = [loc EXCEPT ![p] = [@ EXCEPT !.op = "logout",
                                            !.args = <<refresh_token_str>>,
                                            !.ret = <<FALSE>>]]
    /\ UNCHANGED <<users, tokens, now, nextUid, nextTok, redeemed, steps, last, goals, divisions>>

\* change_password up to its update: user_repo.get reads users.json
CChangePasswordGet(p, user_id, current_password, new_password) ==
    LET user == get(users, user_id)
        failed(err) ==
            /\ pc' = [pc EXCEPT ![p] = "done"]
            /\ loc' = [loc EXCEPT ![p] =
                    [@ EXCEPT !.op = "change_password",
                              !.args = <<user_id, current_password, new_password>>,
                              !.err = err]]
    IN
    /\ pc[p] = "idle"
    /\ IF user = <<>> THEN failed(ErrUserNotFound)
       ELSE IF ~verify_password(current_password, Head(user).password_hash)
       THEN failed(ErrWrongPassword)
       ELSE IF Len(new_password) < 8 THEN failed(ErrWeakNewPassword)
       ELSE /\ pc' = [pc EXCEPT ![p] = "update_read"]
            /\ loc' = [loc EXCEPT ![p] =
                    [@ EXCEPT !.op = "change_password",
                              !.args = <<user_id, current_password, new_password>>,
                              !.repo = "users",
                              !.entity = <<[Head(user) EXCEPT
                                  !.password_hash = hash_password(new_password)]>>]]
    /\ UNCHANGED <<users, tokens, now, nextUid, nextTok, redeemed, steps, last, goals, divisions>>

\* delete_user, JsonRepository.delete: records = self._read_all()
CDeleteRead(p, user_id) ==
    /\ pc[p] = "idle"
    /\ pc' = [pc EXCEPT ![p] = "delete_write"]
    /\ loc' = [loc EXCEPT ![p] = [@ EXCEPT !.op = "delete_user", !.args = <<user_id>>,
                                            !.repo = "users", !.records = users]]
    /\ UNCHANGED <<users, tokens, now, nextUid, nextTok, redeemed, steps, last, goals, divisions>>

\* JsonRepository.delete: the list read before, without the records of the
\* id, is written if it became shorter
CDeleteWrite(p) ==
    LET records == delete(loc[p].records, loc[p].args[1]) IN
    /\ pc[p] = "delete_write"
    /\ IF Len(records) < Len(loc[p].records)
       THEN WriteFile(loc[p].repo, records) /\ Finish(p, OK, <<TRUE>>)
       ELSE UNCHANGED <<users, tokens>> /\ Finish(p, OK, <<FALSE>>)
    /\ UNCHANGED <<now, nextUid, nextTok, redeemed, steps, last, goals, divisions>>

\* JsonRepository.update: records = self._read_all()
CUpdateRead(p) ==
    /\ pc[p] = "update_read"
    /\ pc' = [pc EXCEPT ![p] = "update_write"]
    /\ loc' = [loc EXCEPT ![p].records = File(loc[p].repo)]
    /\ UNCHANGED <<users, tokens, now, nextUid, nextTok, redeemed, steps, last, goals, divisions>>

\* JsonRepository.update: the record is replaced in the list read before and
\* the list is written, or ValueError is raised when that list has no record
\* of the id; then logout_user and change_password return,
\* refresh_access_token goes on
CUpdateWrite(p) ==
    /\ pc[p] = "update_write"
    /\ IF CanUpdate(loc[p].records, Head(loc[p].entity))
       THEN /\ WriteFile(loc[p].repo, update(loc[p].records, Head(loc[p].entity), now))
            /\ IF loc[p].op = "refresh"
               THEN /\ pc' = [pc EXCEPT ![p] = "refresh_issue"]
                    /\ UNCHANGED loc
               ELSE Finish(p, OK, IF loc[p].op = "logout" THEN <<TRUE>> ELSE <<>>)
       ELSE /\ Finish(p, "ValueError", <<>>)
            /\ UNCHANGED <<users, tokens>>
    /\ UNCHANGED <<now, nextUid, nextTok, redeemed, steps, last, goals, divisions>>

\* refresh_access_token: create_access_token, and create_refresh_token up to
\* its create
CRefreshIssue(p) ==
    LET user_id == loc[p].ret[1] IN
    /\ pc[p] = "refresh_issue"
    /\ pc' = [pc EXCEPT ![p] = "create_read"]
    /\ loc' = [loc EXCEPT
                ![p].entity = <<RefreshToken(nextTok + 1, user_id, nextTok + 1,
                                             now + RefreshLifetime, now)>>,
                ![p].ret = <<create_access_token(user_id, now), nextTok + 1>>]
    /\ nextTok' = nextTok + 1
    /\ UNCHANGED <<users, tokens, now, nextUid, redeemed, steps, last, goals, divisions>>

\* JsonRepository.create: records = self._read_all()
CCreateRead(p) ==
    /\ pc[p] = "create_read"
    /\ pc' = [pc EXCEPT ![p] = "create_write"]
    /\ loc' = [loc EXCEPT ![p].records = File(loc[p].repo)]
    /\ UNCHANGED <<users, tokens, now, nextUid, nextTok, redeemed, steps, last, goals, divisions>>

\* JsonRepository.create: the entity is appended to the list read before and
\* the list is written; the call returns
CCreateWrite(p) ==
    /\ pc[p] = "create_write"
    /\ WriteFile(loc[p].repo, create(loc[p].records, Head(loc[p].entity)))
    /\ Finish(p, OK, loc[p].ret)
    /\ UNCHANGED <<now, nextUid, nextTok, redeemed, steps, last, goals, divisions>>

\* the passwords concurrent callers use: a@x.com's, and another one
ConcPasswords == {"password1", "password"}

\* the store after Register("a@x.com", "password1", "Ana") and two logins of
\* that user at time 0
ConcInit ==
    /\ users = create(<<>>, User(1, "a@x.com", hash_password("password1"), "Ana",
                                 None, "email", None, 0))
    /\ tokens = create_refresh_token(create_refresh_token(<<>>, 0, 1, 0).tokens, 1, 1, 0).tokens
    /\ now = 0
    /\ nextUid = 1
    /\ nextTok = 2
    /\ redeemed = {}
    /\ steps = 3
    /\ last = Call("idle", <<>>, OK, <<>>)
    /\ pc = [p \in Procs |-> "idle"]
    /\ loc = [p \in Procs |-> NoLocals]
    /\ goals = <<>>
    /\ divisions = <<>>

ConcNext ==
    \E p \in Procs :
        \/ \E e \in Emails, w \in Passwords, n \in Names : CRegister(p, e, w, n)
        \/ \E s \in TokenStrings : CRefreshFind(p, s)
        \/ CRefreshGetUser(p)
        \/ \E s \in TokenStrings : CLogoutFind(p, s)
        \/ \E u \in UserIds, c \in ConcPasswords, n \in ConcPasswords :
              CChangePasswordGet(p, u, c, n)
        \/ \E u \in UserIds : CDeleteRead(p, u)
        \/ CDeleteWrite(p)
        \/ CUpdateRead(p)
        \/ CUpdateWrite(p)
        \/ CRefreshIssue(p)
        \/ CCreateRead(p)
        \/ CCreateWrite(p)

ConcSpec == ConcInit /\ [][ConcNext]_vars

\* ===================================================== the token functions
\* create_access_token and decode_access_token applied on their own: tokens
\* are issued for a user id at the instants the clock visits, and any issued
\* token, or one made from it by another signer or with other claims, is
\* presented for decoding.

\* the instants around the end of an access token's lifetime
TokenInstants == {0, AccessLifetime - 1, AccessLifetime, AccessLifetime + 1}
\* user ids tokens are issued for
TokenUsers == {1, 2}
\* a string that is no JWT: nothing verifies it
NotAJwt == [sub |-> None, exp |-> 0, type |-> None, key |-> None]

\* the tokens this service has issued by now
IssuedTokens ==
    {create_access_token(u, t0) : u \in TokenUsers, t0 \in {t \in TokenInstants : t <= now}}

\* what a caller can present: an issued token, the same payload signed with
\* another key, or a payload signed with the service's key that carries
\* another type, no subject, an empty subject or a subject that is no UUID; or
\* no JWT at all
PresentedTokens ==
    IssuedTokens
    \cup {[k EXCEPT !.key = "other key"] : k \in IssuedTokens}
    \cup {[k EXCEPT !.type = "refresh"] : k \in IssuedTokens}
    \cup {[k EXCEPT !.sub = None] : k \in IssuedTokens}
    \cup {[k EXCEPT !.sub = ""] : k \in IssuedTokens}
    \cup {[k EXCEPT !.sub = "not-a-uuid"] : k \in IssuedTokens}
    \cup {NotAJwt}

\* create_access_token(user_id) at the current time
IssueAccess(user_id) ==
    /\ last' = Call("create_access_token", <<user_id>>, OK,
                    <<create_access_token(user_id, now)>>)
    /\ UNCHANGED <<users, tokens, now, nextUid, nextTok, redeemed, steps, pc, loc, goals, divisions>>

\* decode_access_token(token) at the current time
DecodeAccess(token) ==
    LET r == decode_access_token(token, now) IN
    /\ last' = Call("decode_access_token", <<token>>,
                    IF r.exc = None THEN OK ELSE r.exc, r.value)
    /\ UNCHANGED <<users, tokens, now, nextUid, nextTok, redeemed, steps, pc, loc, goals, divisions>>

\* the clock advances; no call is being answered
TokenTick ==
    /\ \E t \in TokenInstants : t > now /\ now' = t
    /\ last' = Call("idle", <<>>, OK, <<>>)
    /\ UNCHANGED <<users, tokens, nextUid, nextTok, redeemed, steps, pc, loc, goals, divisions>>

TokenNext ==
    \/ \E u \in TokenUsers : IssueAccess(u)
    \/ \E token \in PresentedTokens : DecodeAccess(token)
    \/ TokenTick

TokenSpec == Init /\ [][TokenNext]_vars

\* ============================================================ the store
\* JsonRepository's operations applied on their own to one collection (the
\* refresh tokens), with entities and criteria of every field type.

\* entities a caller hands to create and update; the update timestamp is
\* whatever the caller's copy carries
RepoEntities ==
    {[id |-> i, user_id |-> 1, token |-> i, expires_at |-> 5, revoked |-> r,
      updated_at |-> u] :
        i \in 1 .. MaxRecords, r \in BOOLEAN, u \in {0, 9}}
\* criteria of find_by and find_one_by
RepoCriteria ==
    {[token |-> 1], [user_id |-> 1], [id |-> 2], [revoked |-> FALSE],
     [token |-> 2, revoked |-> TRUE], [user_id |-> 1, revoked |-> FALSE],
     [expires_at |-> 5]}
RepoInstants == {0, 3}

RepoDone(op, args, err, ret) ==
    /\ last' = Call(op, args, err, ret)
    /\ UNCHANGED <<users, now, nextUid, nextTok, redeemed, steps, pc, loc, goals, divisions>>

\* create(entity); ids are fresh uuid4 draws, never a stored one
RepoCreate(entity) ==
    /\ Len(tokens) < MaxRecords
    /\ IndexOf(tokens, entity.id) = 0
    /\ tokens' = create(tokens, entity)
    /\ RepoDone("create", <<entity>>, OK, <<entity>>)

\* update(entity)
RepoUpdate(entity) ==
    /\ IF CanUpdate(tokens, entity)
       THEN /\ tokens' = update(tokens, entity, now)
            /\ RepoDone("update", <<entity>>, OK, <<Stamped(entity, now)>>)
       ELSE /\ tokens' = tokens
            /\ RepoDone("update", <<entity>>, "ValueError", <<>>)

\* delete(id)
RepoDelete(id) ==
    /\ tokens' = delete(tokens, id)
    /\ RepoDone("delete", <<id>>, OK, <<Len(delete(tokens, id)) < Len(tokens)>>)

\* get(id)
RepoGet(id) ==
    /\ tokens' = tokens
    /\ RepoDone("get", <<id>>, OK, get(tokens, id))

\* find_by(**kwargs)
RepoFindBy(kwargs) ==
    /\ tokens' = tokens
    /\ RepoDone("find_by", <<kwargs>>, OK, find_by(tokens, kwargs))

\* find_one_by(**kwargs)
RepoFindOneBy(kwargs) ==
    /\ tokens' = tokens
    /\ RepoDone("find_one_by", <<kwargs>>, OK, find_one_by(tokens, kwargs))

\* the clock advances; no call is being answered
RepoTick ==
    /\ \E t \in RepoInstants : t > now /\ now' = t
    /\ last' = Call("idle", <<>>, OK, <<>>)
    /\ UNCHANGED <<users, tokens, nextUid, nextTok, redeemed, steps, pc, loc, goals, divisions>>

RepoNext ==
    \/ \E entity \in RepoEntities : RepoCreate(entity)
    \/ \E entity \in RepoEntities : RepoUpdate(entity)
    \/ \E id \in 1 .. MaxRecords + 1 : RepoDelete(id)
    \/ \E id \in 1 .. MaxRecords + 1 : RepoGet(id)
    \/ \E kwargs \in RepoCriteria : RepoFindBy(kwargs)
    \/ \E kwargs \in RepoCriteria : RepoFindOneBy(kwargs)
    \/ RepoTick

RepoSpec == Init /\ [][RepoNext]_vars

\* ================================================================ claims
\* The spec's error kinds, as sets of the service's messages.
InvalidRefreshToken == {ErrInvalidRefresh, ErrUserGone}
RevokedRefreshToken == {ErrRevoked}
ExpiredRefreshToken == {ErrExpired}
DuplicateEmail == {ErrEmailTaken}
WeakPassword == {ErrWeakPassword, ErrWeakNewPassword}
InvalidCredentials == {ErrInvalidCredentials, ErrWrongPassword}
AccountDeactivated == {ErrDeactivated}
NotFound == {ErrUserNotFound}
InvalidToken == {ErrGoogleToken, ErrAudience, ErrNoEmail}

\* the stored records with this token string
WithString(s) == {i \in DOMAIN tokens : tokens[i].token = s}
\* the user a refresh token names exists and is active
OwnerUsable(token) ==
    \E j \in DOMAIN users : users[j].id = token.user_id /\ users[j].is_active
\* a step in which a call is served
Served(op) == Idle /\ last'.op = op

\* C1: once a refresh-token string has been redeemed (by a successful
\* RefreshTokens or by a Logout that revoked it), every later RefreshTokens
\* with that string fails with RevokedRefreshToken, returns no tokens and
\* stores nothing, whatever calls and clock advances came in between.
C1_RedeemedStaysRevoked ==
    [][\A s \in redeemed :
          RefreshTokens(s) =>
              /\ last'.err \in RevokedRefreshToken
              /\ last'.ret = <<>>
              /\ tokens' = tokens
              /\ nextTok' = nextTok]_vars

\* C1 witness: a redeemed string is presented again after it expired and its
\* owner was deleted, and the call failed with RevokedRefreshToken.
C1_Witness ==
    /\ last.op = "refresh"
    /\ last.err = ErrRevoked
    /\ last.args[1] \in redeemed
    /\ \E i \in WithString(last.args[1]) :
          /\ tokens[i].expires_at < now
          /\ get(users, tokens[i].user_id) = <<>>

\* the failure RefreshTokens(s) must end in, by the first check that applies
C4_Expected(s) ==
    IF WithString(s) = {} THEN ErrInvalidRefresh
    ELSE LET token == tokens[CHOOSE i \in WithString(s) : TRUE] IN
         IF token.revoked THEN ErrRevoked
         ELSE IF now > token.expires_at THEN ErrExpired
         ELSE IF ~OwnerUsable(token) THEN ErrUserGone
         ELSE OK

\* C4: RefreshTokens fails at the first check that applies, in the order
\* unknown string, revoked record, record past its expiry, owner missing or
\* inactive; a failed call changes no record, creates no token and leaves
\* the presented token unrevoked.
C4_RefreshCheckOrder ==
    [][\A s \in TokenStrings :
          RefreshTokens(s) =>
              /\ last'.err = C4_Expected(s)
              /\ last'.err # OK =>
                    /\ tokens' = tokens
                    /\ users' = users
                    /\ nextTok' = nextTok
                    /\ last'.ret = <<>>]_vars

\* C4 witness: a call failed on the last check (the owner is gone or
\* inactive) and the presented token is still unrevoked.
C4_Witness ==
    /\ last.op = "refresh"
    /\ last.err = ErrUserGone
    /\ \E i \in WithString(last.args[1]) : ~tokens[i].revoked /\ tokens[i].expires_at >= now

\* C5: a refresh token is valid for consumption iff it is unrevoked and
\* now < expires_at; RefreshTokens with an unrevoked token at the instant
\* now = expires_at fails with ExpiredRefreshToken.
C5_ExpiredAtBoundary ==
    [][\A s \in TokenStrings :
          (RefreshTokens(s) /\ \E i \in WithString(s) :
                                   ~tokens[i].revoked /\ now = tokens[i].expires_at)
              => last'.err \in ExpiredRefreshToken]_vars

\* C6: a successful RefreshTokens(R) stores revoked = true on R's record and
\* creates exactly one new record, of the same user, unrevoked, with another
\* string; it returns that record's string and an access token that decodes
\* to the same user id.
C6_RefreshRotates ==
    [][\A s \in TokenStrings :
          (RefreshTokens(s) /\ last'.err = OK) =>
              /\ Len(tokens') = Len(tokens) + 1
              /\ \A i \in DOMAIN tokens :
                    IF tokens[i].token = s
                    THEN tokens'[i] = [tokens[i] EXCEPT !.revoked = TRUE, !.updated_at = now]
                    ELSE tokens'[i] = tokens[i]
              /\ WithString(s) # {}
              /\ LET new == tokens'[Len(tokens')] IN
                 /\ \A i \in WithString(s) : new.user_id = tokens[i].user_id
                 /\ ~new.revoked
                 /\ new.token # s
                 /\ \A i \in DOMAIN tokens : new.token # tokens[i].token
                 /\ last'.ret[2] = new.token
                 /\ decode_access_token(last'.ret[1], now') = Returned(<<new.user_id>>)]_vars

\* C6 witness: a refresh has succeeded; the presented token is stored revoked
\* and the returned string is that of the newest, unrevoked record.
C6_Witness ==
    /\ last.op = "refresh"
    /\ last.err = OK
    /\ \E i \in WithString(last.args[1]) : tokens[i].revoked
    /\ tokens[Len(tokens)].token = last.ret[2]
    /\ ~tokens[Len(tokens)].revoked

\* C7: with calls served one at a time, the refresh-token collection changes
\* only by a new record at the end or by revoked going from false to true on
\* a stored record; no record is removed, none changes its id, string, owner
\* or expiry, and a clock advance changes nothing stored.
C7_TokenLifecycle ==
    [][/\ Len(tokens') \in {Len(tokens), Len(tokens) + 1}
       /\ \A i \in DOMAIN tokens :
             \/ tokens'[i] = tokens[i]
             \/ /\ ~tokens[i].revoked
                /\ tokens'[i] = [tokens[i] EXCEPT !.revoked = TRUE, !.updated_at = now]
       /\ Len(tokens') = Len(tokens) + 1 =>
             \A i \in DOMAIN tokens :
                 /\ tokens'[Len(tokens')].token # tokens[i].token
                 /\ tokens'[Len(tokens')].id # tokens[i].id
       /\ now' # now => tokens' = tokens /\ users' = users]_vars

\* C7 witness: one token was revoked, another was appended after it, and the
\* clock has passed the first token's expiry.
C7_Witness ==
    /\ Len(tokens) >= 2
    /\ tokens[1].revoked
    /\ ~tokens[2].revoked
    /\ now > tokens[1].expires_at

\* the new refresh-token records of a step, for user u
C8_NewFor(u) ==
    {i \in DOMAIN tokens' : i \notin DOMAIN tokens /\ tokens'[i].user_id = u}

\* C8 (as stated): every successful login (password or federated), every
\* successful registration and every successful refresh creates a new
\* RefreshToken record for the user concerned.
C8_EverySuccessIssues ==
    [][/\ (last'.err = OK /\ (Served("login") \/ Served("login_with_google")
                                \/ Served("register")))
            => C8_NewFor(last'.ret[1]) # {}
       /\ (last'.err = OK /\ Served("refresh"))
            => \E i \in WithString(last'.args[1]) : C8_NewFor(tokens[i].user_id) # {}]_vars

\* C8 (amended): every successful login (password or federated) and every
\* successful refresh creates a new RefreshToken record for the user
\* concerned; a successful registration creates the user and no RefreshToken.
C8_LoginAndRefreshIssue ==
    [][/\ (last'.err = OK /\ (Served("login") \/ Served("login_with_google")))
            => C8_NewFor(last'.ret[1]) # {}
       /\ (last'.err = OK /\ Served("refresh"))
            => \E i \in WithString(last'.args[1]) : C8_NewFor(tokens[i].user_id) # {}
       /\ (last'.err = OK /\ Served("register")) => tokens' = tokens]_vars

\* C8 witness: a login has succeeded and the newest stored token is the
\* returned one, owned by the user who logged in.
C8_Witness ==
    /\ last.op = "login"
    /\ last.err = OK
    /\ tokens[Len(tokens)].user_id = last.ret[1]
    /\ tokens[Len(tokens)].token = last.ret[3]

\* C9: while a user with email e is stored, Register(e, p, n) fails with
\* DuplicateEmail for every password and name, also a password shorter than
\* 8 characters, and leaves the user collection unchanged.
C9_DuplicateEmailFirst ==
    [][\A e \in Emails, p \in Passwords, n \in Names :
          (Register(e, p, n) /\ \E i \in DOMAIN users : users[i].email = e) =>
              /\ last'.err \in DuplicateEmail
              /\ users' = users
              /\ nextUid' = nextUid]_vars

\* C9 witness: a registration with a stored email and a short password was
\* refused as a duplicate.
C9_Witness ==
    /\ last.op = "register"
    /\ last.err = ErrEmailTaken
    /\ Len(last.args[2]) < 8
    /\ \E i \in DOMAIN users : users[i].email = last.args[1]

\* C2: a RefreshToken record stored with revoked = true never later has
\* revoked = false, also when calls run concurrently and a store update's
\* read of the collection and its write-back are separate steps.
C2_RevokedMonotonic ==
    [][\A i \in DOMAIN tokens : \A j \in DOMAIN tokens' :
          (tokens[i].id = tokens'[j].id /\ tokens[i].revoked) => tokens'[j].revoked]_vars

\* C3: when two RefreshTokens calls present the same valid token string
\* concurrently, at most one of them succeeds.
C3_RedeemedOnce ==
    \A p \in Procs : \A q \in Procs \ {p} :
        ~ /\ pc[p] = "done" /\ loc[p].op = "refresh" /\ loc[p].err = OK
          /\ pc[q] = "done" /\ loc[q].op = "refresh" /\ loc[q].err = OK
          /\ loc[p].args = loc[q].args

\* C10: no two stored User records have the same email, also when calls that
\* look an email up and then create a user run concurrently.
C10_EmailUnique ==
    \A i \in DOMAIN users : \A j \in DOMAIN users :
        users[i].email = users[j].email => i = j

\* the stored users with this email
WithEmail(e) == {i \in DOMAIN users : users[i].email = e}
\* the ids of the stored users
StoredIds == {users[i].id : i \in DOMAIN users}

\* C11: Register with an unused email and a password shorter than 8
\* characters fails with WeakPassword and creates no user; with a password
\* of 8 or more characters it creates exactly one User, with provider
\* "email", active, without external subject id, whose stored hash verifies
\* that password.
C11_RegisterOutcome ==
    [][Served("register") =>
          \A e \in {last'.args[1]}, p \in {last'.args[2]}, n \in {last'.args[3]} :
          WithEmail(e) = {} =>
              IF Len(p) < 8
              THEN /\ last'.err \in WeakPassword
                   /\ users' = users
                   /\ nextUid' = nextUid
              ELSE /\ last'.err = OK
                   /\ Len(users') = Len(users) + 1
                   /\ \A i \in DOMAIN users : users'[i] = users[i]
                   /\ LET user == users'[Len(users')] IN
                      /\ user.email = e
                      /\ user.name = n
                      /\ user.auth_provider = "email"
                      /\ user.is_active
                      /\ user.google_id = None
                      /\ user.password_hash # None
                      /\ verify_password(p, user.password_hash)
                      /\ \A q \in Passwords \ {p} : ~verify_password(q, user.password_hash)
                      /\ user.id \notin StoredIds
                      /\ last'.ret = <<user.id>>
                   /\ tokens' = tokens]_vars

\* C11 witness: a registration with a password of exactly 8 characters has
\* created the newest stored user, active and with provider "email".
C11_Witness ==
    /\ last.op = "register"
    /\ last.err = OK
    /\ Len(last.args[2]) = 8
    /\ users[Len(users)].id = last.ret[1]
    /\ users[Len(users)].auth_provider = "email"
    /\ users[Len(users)].is_active
    /\ verify_password(last.args[2], users[Len(users)].password_hash)

\* the credentials do not pass: no stored user has the email, or the first
\* one that has it has no password hash or one the password does not verify
BadCredentials(e, p) ==
    \/ WithEmail(e) = {}
    \/ LET user == users[CHOOSE i \in WithEmail(e) : \A j \in WithEmail(e) : i <= j] IN
       \/ user.password_hash = None
       \/ ~verify_password(p, user.password_hash)

\* C12: Login fails with InvalidCredentials when no user has the email, when
\* the password does not verify against the stored hash, or when the account
\* has no password hash; it fails with AccountDeactivated exactly when the
\* credentials are correct and the user is inactive.  A failed Login creates
\* no refresh token and changes no record.
C12_LoginFailures ==
    [][Served("login") =>
          \A e \in {last'.args[1]}, p \in {last'.args[2]} :
              /\ BadCredentials(e, p) => last'.err = ErrInvalidCredentials
              /\ last'.err \in AccountDeactivated <=>
                    /\ ~BadCredentials(e, p)
                    /\ \E i \in WithEmail(e) : ~users[i].is_active
              /\ last'.err # OK =>
                    /\ tokens' = tokens
                    /\ users' = users
                    /\ nextTok' = nextTok
                    /\ last'.ret = <<>>]_vars

\* C12 witness: a login with a stored email and a password that does not
\* verify against that user's hash was refused with InvalidCredentials, while
\* that user holds a refresh token from an earlier login.
C12_Witness ==
    /\ last.op = "login"
    /\ last.err = ErrInvalidCredentials
    /\ \E i \in WithEmail(last.args[1]) :
          /\ ~verify_password(last.args[2], users[i].password_hash)
          /\ \E k \in DOMAIN tokens : tokens[k].user_id = users[i].id

\* C13: for every stored active user with a password hash, Login with that
\* user's email and a password that verifies against the stored hash
\* succeeds: it returns that user, an access token that decodes to that
\* user's id, and the string of a newly stored unrevoked refresh token owned
\* by that user.
C13_LoginSucceeds ==
    [][Served("login") =>
          \A e \in {last'.args[1]}, p \in {last'.args[2]} : \A i \in WithEmail(e) :
          (/\ users[i].is_active
           /\ users[i].password_hash # None
           /\ verify_password(p, users[i].password_hash)) =>
              /\ last'.err = OK
              /\ last'.ret[1] = users[i].id
              /\ decode_access_token(last'.ret[2], now') = Returned(<<users[i].id>>)
              /\ Len(tokens') = Len(tokens) + 1
              /\ \A k \in DOMAIN tokens : tokens'[k] = tokens[k]
              /\ LET new == tokens'[Len(tokens')] IN
                 /\ new.token = last'.ret[3]
                 /\ new.user_id = users[i].id
                 /\ ~new.revoked
                 /\ new.expires_at > now'
                 /\ \A k \in DOMAIN tokens : new.token # tokens[k].token]_vars

\* C13 witness: a user whose record was stored again after the clock advanced
\* has logged in, and the returned string is that of the newest stored token,
\* which that user owns.
C13_Witness ==
    /\ last.op = "login"
    /\ last.err = OK
    /\ \E i \in WithEmail(last.args[1]) :
          /\ users[i].id = last.ret[1]
          /\ users[i].updated_at > 0
          /\ tokens[Len(tokens)].user_id = users[i].id
    /\ tokens[Len(tokens)].token = last.ret[3]
    /\ ~tokens[Len(tokens)].revoked

\* the stored users with this id
WithId(u) == {i \in DOMAIN users : users[i].id = u}

\* C14 (as stated): after a successful ChangePassword(u, current, new), Login
\* with u's email and the old (current) password fails with
\* InvalidCredentials, for every pair of current and new passwords that
\* ChangePassword accepts.
C14_OldPasswordRejected ==
    [][(Served("change_password") /\ last'.err = OK) =>
          \A i \in WithId(last'.args[1]) : \A current \in {last'.args[2]} :
              login_user(users[i].email, current)'.err \in InvalidCredentials]_vars

\* C14 (amended): after a successful ChangePassword(u, current, new) with new
\* different from current, Login with u's email and the old password fails
\* with InvalidCredentials and Login with the new one passes the credential
\* check; ChangePassword also accepts new equal to current, and the old
\* password, being the new one, then still passes the credential check.
C14_OldPasswordRejectedIfChanged ==
    [][(Served("change_password") /\ last'.err = OK) =>
          \A i \in WithId(last'.args[1]) :
          \A current \in {last'.args[2]} : \A new \in {last'.args[3]} :
              /\ current # new =>
                    login_user(users[i].email, current)'.err \in InvalidCredentials
              /\ login_user(users[i].email, new)'.err \notin InvalidCredentials]_vars

\* C14 witness: a password change to a different password has been served;
\* in the state it left, a login of that user with the old password is
\* refused with InvalidCredentials and one with the new password succeeds.
C14_Witness ==
    /\ last.op = "change_password"
    /\ last.err = OK
    /\ last.args[2] # last.args[3]
    /\ \E i \in WithId(last.args[1]) :
          /\ login_user(users[i].email, last.args[2]).err = ErrInvalidCredentials
          /\ login_user(users[i].email, last.args[3]).err = OK

\* the failure ChangePassword(u, current, new) must end in, by the first
\* check that applies
C15_Expected(u, current, new) ==
    IF WithId(u) = {} THEN NotFound
    ELSE LET user == users[CHOOSE i \in WithId(u) : TRUE] IN
         IF user.password_hash = None \/ ~verify_password(current, user.password_hash)
         THEN InvalidCredentials
         ELSE IF Len(new) < 8 THEN WeakPassword
         ELSE {OK}

\* C15: ChangePassword fails with NotFound if the user id has no record,
\* otherwise with InvalidCredentials if the current password does not verify
\* (also when the account has no password hash), otherwise with WeakPassword
\* if the new password is shorter than 8 characters; on every failure the
\* stored records are unchanged, and on success only that user's password
\* hash and update timestamp change.
C15_ChangePasswordOutcome ==
    [][Served("change_password") =>
          \A u \in {last'.args[1]}, c \in {last'.args[2]}, n \in {last'.args[3]} :
              /\ last'.err \in C15_Expected(u, c, n)
              /\ tokens' = tokens
              /\ last'.err # OK => users' = users
              /\ last'.err = OK =>
                    /\ Len(users') = Len(users)
                    /\ \A i \in DOMAIN users :
                          IF users[i].id = u
                          THEN /\ users'[i] = [users[i] EXCEPT
                                                 !.password_hash = users'[i].password_hash,
                                                 !.updated_at = now]
                               /\ verify_password(n, users'[i].password_hash)
                          ELSE users'[i] = users[i]]_vars

\* C15 witness: with two users stored, the second one's password has been
\* changed, and the first one's record still carries its own hash.
C15_Witness ==
    /\ last.op = "change_password"
    /\ last.err = OK
    /\ Len(users) = 2
    /\ users[2].id = last.args[1]
    /\ verify_password(last.args[3], users[2].password_hash)
    /\ ~verify_password(last.args[3], users[1].password_hash)

\* C16: Logout never fails and is idempotent: for a string matching a stored
\* unrevoked token it sets revoked = true on that record only; for an unknown
\* or already revoked string it changes nothing; a second Logout with the
\* same string leaves the store as the first one left it.
C16_LogoutIdempotent ==
    [][Served("logout") =>
          \A s \in {last'.args[1]} :
              /\ last'.err = OK
              /\ users' = users
              /\ nextTok' = nextTok
              /\ IF \E i \in WithString(s) : ~tokens[i].revoked
                 THEN /\ Len(tokens') = Len(tokens)
                      /\ \A i \in DOMAIN tokens :
                            IF tokens[i].token = s
                            THEN tokens'[i] = [tokens[i] EXCEPT !.revoked = TRUE,
                                                               !.updated_at = now]
                            ELSE tokens'[i] = tokens[i]
                 ELSE tokens' = tokens
              /\ logout_user(s)'.tokens = tokens'
              /\ ~logout_user(s)'.ret]_vars

\* C16 witness: a second Logout with a string that an earlier Logout or
\* refresh revoked was served and found nothing to do, while another token of
\* the same user is still unrevoked.
C16_Witness ==
    /\ last.op = "logout"
    /\ last.ret = <<FALSE>>
    /\ last.args[1] \in redeemed
    /\ \E i \in WithString(last.args[1]) :
          /\ tokens[i].revoked
          /\ \E k \in DOMAIN tokens :
                tokens[k].user_id = tokens[i].user_id /\ ~tokens[k].revoked

\* C17: DeleteAccount(u) removes u's User record and leaves the refresh-token
\* collection unchanged (u's tokens keep revoked = false); a removed id never
\* comes back, and every later RefreshTokens with one of u's unrevoked,
\* unexpired tokens fails with InvalidRefreshToken and does not revoke it.
C17_DeleteKeepsTokens ==
    [][/\ Served("delete_user") =>
             \A u \in {last'.args[1]} :
                 /\ last'.err = OK
                 /\ users' = SelectSeq(users, LAMBDA r : r.id # u)
                 /\ \A i \in DOMAIN users' : users'[i].id # u
                 /\ last'.ret = <<WithId(u) # {}>>
                 /\ tokens' = tokens
       /\ \A u \in 1 .. nextUid :
             WithId(u) = {} => \A i \in DOMAIN users' : users'[i].id # u
       /\ Served("refresh") =>
             \A s \in {last'.args[1]} : \A i \in WithString(s) :
                 (/\ ~tokens[i].revoked
                  /\ now < tokens[i].expires_at
                  /\ WithId(tokens[i].user_id) = {}) =>
                     /\ last'.err \in InvalidRefreshToken
                     /\ last'.ret = <<>>
                     /\ tokens' = tokens
                     /\ nextTok' = nextTok]_vars

\* C17 witness: a refresh with an unrevoked, unexpired token of a deleted
\* user was refused, and the token is still stored unrevoked.
C17_Witness ==
    /\ last.op = "refresh"
    /\ last.err \in InvalidRefreshToken
    /\ \E i \in WithString(last.args[1]) :
          /\ ~tokens[i].revoked
          /\ now < tokens[i].expires_at
          /\ WithId(tokens[i].user_id) = {}

\* C18: while a user's active flag is false, Login with that user's email
\* and correct password fails with AccountDeactivated, and RefreshTokens with
\* any of that user's unrevoked, unexpired refresh tokens fails; neither call
\* issues an access or refresh token.
C18_DeactivatedRefused ==
    [][/\ Served("login") =>
             \A e \in {last'.args[1]}, p \in {last'.args[2]} : \A i \in WithEmail(e) :
                 (/\ ~users[i].is_active
                  /\ users[i].password_hash # None
                  /\ verify_password(p, users[i].password_hash)) =>
                     /\ last'.err \in AccountDeactivated
                     /\ last'.ret = <<>>
                     /\ tokens' = tokens
                     /\ nextTok' = nextTok
       /\ Served("refresh") =>
             \A s \in {last'.args[1]} : \A i \in WithString(s) :
                 (/\ ~tokens[i].revoked
                  /\ now < tokens[i].expires_at
                  /\ \E j \in WithId(tokens[i].user_id) : ~users[j].is_active) =>
                     /\ last'.err \in InvalidRefreshToken
                     /\ last'.ret = <<>>
                     /\ tokens' = tokens
                     /\ nextTok' = nextTok]_vars

\* C18 witness: a refresh with an unrevoked, unexpired token of a stored but
\* inactive user was refused and issued nothing.
C18_Witness ==
    /\ last.op = "refresh"
    /\ last.err = ErrUserGone
    /\ last.ret = <<>>
    /\ \E i \in WithString(last.args[1]) :
          /\ ~tokens[i].revoked
          /\ now < tokens[i].expires_at
          /\ \E j \in WithId(tokens[i].user_id) : ~users[j].is_active

\* the provider's answer carries a verified claim with an email: a success
\* response, no expected audience being configured
VerifiedWithEmail(g) == g.status = 200 /\ g.email # None
\* the stored users whose external subject id is the claim's
WithSubject(g) == {i \in DOMAIN users : g.sub # None /\ users[i].google_id = g.sub}

\* C19: for a verified claim that carries an email, LoginWithFederatedIdentity
\* resolves the user in this order: if some user has the claim's external
\* subject id, no user record is created or modified; otherwise if some user
\* has the claim's email, that user is linked (subject id and provider tag
\* set, avatar set only when the claim has a picture) and persisted;
\* otherwise exactly one new user is created with no password hash and the
\* federated provider tag.
C19_ResolutionOrder ==
    [][Served("login_with_google") =>
          \A g \in {last'.args[1]} :
              VerifiedWithEmail(g) =>
                  IF WithSubject(g) # {}
                  THEN users' = users
                  ELSE IF WithEmail(g.email) # {}
                  THEN /\ Len(users') = Len(users)
                       /\ \E k \in WithEmail(g.email) :
                             \A i \in DOMAIN users :
                                 IF i = k
                                 THEN users'[i] =
                                        [users[i] EXCEPT
                                            !.google_id = g.sub,
                                            !.auth_provider = "google",
                                            !.avatar_url = IF g.picture # None
                                                           THEN g.picture ELSE @,
                                            !.updated_at = now]
                                 ELSE users'[i] = users[i]
                  ELSE /\ Len(users') = Len(users) + 1
                       /\ \A i \in DOMAIN users : users'[i] = users[i]
                       /\ users'[Len(users')].email = g.email
                       /\ users'[Len(users')].google_id = g.sub
                       /\ users'[Len(users')].password_hash = None
                       /\ users'[Len(users')].auth_provider = "google"]_vars

\* C20: if a user registered with email e and a password exists and no user
\* has the claim's subject id, LoginWithFederatedIdentity with a verified
\* claim for e succeeds, returns that user's id, sets that user's provider
\* tag to the federated provider and leaves the password hash unchanged, so
\* that a later Login(e, password) still succeeds.
C20_LinkKeepsPassword ==
    [][Served("login_with_google") =>
          \A g \in {last'.args[1]} : \A i \in WithEmail(g.email) :
              (/\ VerifiedWithEmail(g)
               /\ WithSubject(g) = {}
               /\ users[i].auth_provider = "email"
               /\ users[i].password_hash # None
               /\ users[i].is_active) =>
                  /\ last'.err = OK
                  /\ last'.ret[1] = users[i].id
                  /\ users'[i].auth_provider = "google"
                  /\ users'[i].password_hash = users[i].password_hash
                  /\ \A p \in Passwords :
                        verify_password(p, users[i].password_hash) =>
                            login_user(users[i].email, p)'.err = OK]_vars

\* C21: LoginWithFederatedIdentity fails with InvalidToken when the identity
\* provider returns a non-success response or when the verified claim has no
\* email, and with AccountDeactivated when the resolved user is inactive; in
\* all these cases no access or refresh token is issued.
C21_FederatedFailures ==
    [][Served("login_with_google") =>
          \A g \in {last'.args[1]} :
              /\ (g.status # 200 \/ g.email = None) =>
                    /\ last'.err \in InvalidToken
                    /\ last'.ret = <<>>
                    /\ tokens' = tokens
                    /\ nextTok' = nextTok
              /\ (/\ VerifiedWithEmail(g)
                  /\ \/ \E i \in WithSubject(g) : ~users[i].is_active
                     \/ /\ WithSubject(g) = {}
                        /\ \E i \in WithEmail(g.email) : ~users[i].is_active) =>
                    /\ last'.err \in AccountDeactivated
                    /\ last'.ret = <<>>
                    /\ tokens' = tokens
                    /\ nextTok' = nextTok]_vars

\* an expected audience is configured
AudienceConfigured ==
    "google_client_id" \in DOMAIN settings /\ settings["google_client_id"] # None

\* C22: when an expected audience is configured, federated verification
\* fails with InvalidToken if the token's audience claim differs from it;
\* when none is configured, the audience check is skipped and a success
\* response from the provider yields the verified claim.
C22_AudienceCheck ==
    [][Served("login_with_google") =>
          \A g \in {last'.args[1]} :
              g.status = 200 =>
                  IF AudienceConfigured
                  THEN g.aud # settings["google_client_id"] => last'.err \in InvalidToken
                  ELSE /\ verify_google_token(g).err = OK
                       /\ verify_google_token(g).email = g.email
                       /\ verify_google_token(g).sub = g.sub
                       /\ last'.err \in {OK} \cup InvalidToken \cup AccountDeactivated]_vars

\* C23: for every user id u, decodeAccess(issueAccess(u)) returns u at any
\* time before the configured access lifetime has elapsed since issuance,
\* and returns null once that lifetime has elapsed.
C23_AccessRoundTrip ==
    [][\A u \in TokenUsers : \A t0 \in {t \in TokenInstants : t <= now} :
          DecodeAccess(create_access_token(u, t0)) =>
              /\ last'.err = OK
              /\ last'.ret = IF now < t0 + AccessLifetime THEN <<u>> ELSE <<>>]_vars

\* C24: decodeAccess returns a user id only for a correctly signed, unexpired
\* token whose kind is "access"; for every other input (bad signature,
\* expired, wrong kind, malformed token or malformed subject) it returns null
\* and never raises.  (The instant now = exp is left to C23: a token is taken
\* as expired here when now > exp.)
C24_DecodeNeverRaises ==
    [][\A token \in PresentedTokens :
          DecodeAccess(token) =>
              /\ last'.err = OK
              /\ last'.ret # <<>> =>
                    /\ token.key = settings.jwt_secret_key
                    /\ now <= token.exp
                    /\ token.type = "access"
                    /\ last'.ret = <<CHOOSE u \in UUIDs : uuid_str(u) = token.sub>>
              /\ (\/ token.key # settings.jwt_secret_key
                  \/ now > token.exp
                  \/ token.type # "access"
                  \/ \A u \in UUIDs : uuid_str(u) # token.sub) => last'.ret = <<>>]_vars

\* the access token issued together with a stored refresh token: both are
\* made in one call, for the same user at the same time
C25_IssuedWith(token) ==
    create_access_token(token.user_id, token.expires_at - RefreshLifetime)

\* C25: access tokens cannot be revoked: after Logout, after the refresh
\* token issued with it has been rotated, or after ChangePassword, an access
\* token issued earlier for a still-existing user continues to decode to
\* that user's id until its own expiry.
C25_AccessNotRevocable ==
    \A i \in DOMAIN tokens :
        (WithId(tokens[i].user_id) # {} /\ now < C25_IssuedWith(tokens[i]).exp) =>
            decode_access_token(C25_IssuedWith(tokens[i]), now)
                = Returned(<<tokens[i].user_id>>)

\* C25 witness: a user has logged out, which revoked the refresh token, and
\* has then changed the password; the access token issued with that refresh
\* token has not reached its expiry.
C25_Witness ==
    /\ last.op = "change_password"
    /\ last.err = OK
    /\ \E i \in DOMAIN tokens :
          /\ tokens[i].user_id = last.args[1]
          /\ tokens[i].revoked
          /\ \A k \in DOMAIN tokens : tokens[k].user_id = last.args[1] => tokens[k].revoked
          /\ now < C25_IssuedWith(tokens[i]).exp

\* C26: a store create or update is a read of the whole collection followed,
\* in a separate step and with no mutual exclusion, by a write of the whole
\* collection computed from that read; so two concurrent calls on the same
\* collection can both return success while the final collection reflects
\* only one of the two writes.  Every write-back stores the list its caller
\* read, with the caller's one change, whatever was written in between.
C26_WriteBackOverwrites ==
    [][\A p \in Procs :
          LET written == IF loc[p].repo = "users" THEN users' ELSE tokens' IN
          /\ CCreateWrite(p) =>
                /\ written = Append(loc[p].records, Head(loc[p].entity))
                /\ loc'[p].err = OK
          /\ (CUpdateWrite(p) /\ CanUpdate(loc[p].records, Head(loc[p].entity))) =>
                /\ Len(written) = Len(loc[p].records)
                /\ \A i \in DOMAIN written :
                      \/ written[i] = loc[p].records[i]
                      \/ /\ written[i].id = Head(loc[p].entity).id
                         /\ written[i] = Stamped(Head(loc[p].entity), now)
                /\ loc'[p].err = OK]_vars

\* C26 witness: two concurrent registrations have both returned a new user,
\* and the users collection holds only one of the two.
C26_Witness ==
    \E p \in Procs : \E q \in Procs \ {p} :
        /\ pc[p] = "done" /\ loc[p].op = "register" /\ loc[p].err = OK
        /\ pc[q] = "done" /\ loc[q].op = "register" /\ loc[q].err = OK
        /\ loc[p].ret[1] \notin StoredIds
        /\ loc[q].ret[1] \in StoredIds

\* C27: the orchestrator never calls the store's update on an id that has no
\* record, so the store's NotFound never surfaces from an orchestrator
\* operation, also when DeleteAccount runs concurrently with ChangePassword
\* for the same user.
C27_UpdateFindsRecord ==
    \A p \in Procs : ~(pc[p] = "done" /\ loc[p].err = "ValueError")

\* the store's NotFound
StoreNotFound == {"ValueError"}
\* a step in which the store serves this operation
RepoServed(op) == last'.op = op /\ now' = now

\* C28: store update on an id with no stored record fails with NotFound and
\* leaves the collection unchanged.
C28_UpdateMissingFails ==
    [][RepoServed("update") =>
          \A entity \in {last'.args[1]} :
              (\A i \in DOMAIN tokens : tokens[i].id # entity.id) =>
                  /\ last'.err \in StoreNotFound
                  /\ last'.ret = <<>>
                  /\ tokens' = tokens]_vars

\* C28 witness: an update for an id that is not among the stored records was
\* refused, and the collection still holds its record.
C28_Witness ==
    /\ last.op = "update"
    /\ last.err \in StoreNotFound
    /\ Len(tokens) >= 1
    /\ \A i \in DOMAIN tokens : tokens[i].id # last.args[1].id

\* C29: store update(record) replaces, in place, the stored record with the
\* same id and sets its update timestamp to the current time whatever value
\* the caller supplied; all other records, their order and the number of
\* records are unchanged.
C29_UpdateInPlace ==
    [][RepoServed("update") =>
          \A entity \in {last'.args[1]} :
              (\E i \in DOMAIN tokens : tokens[i].id = entity.id) =>
                  /\ last'.err = OK
                  /\ Len(tokens') = Len(tokens)
                  /\ \A i \in DOMAIN tokens :
                        IF tokens[i].id = entity.id
                        THEN tokens'[i] = [entity EXCEPT !.updated_at = now]
                        ELSE tokens'[i] = tokens[i]
                  /\ last'.ret = <<[entity EXCEPT !.updated_at = now]>>]_vars

\* C29 witness: the second of two stored records was updated from a copy
\* that carried another timestamp and other field values; it is stored with
\* the current time, and the first record is as it was created.
C29_Witness ==
    /\ last.op = "update"
    /\ last.err = OK
    /\ Len(tokens) >= 2
    /\ tokens[2].id = last.args[1].id
    /\ last.args[1].updated_at # now
    /\ tokens[2].updated_at = now
    /\ tokens[2].revoked = last.args[1].revoked
    /\ tokens[1].updated_at # now

\* the stored records for which every supplied field equals the stored value
C30_Matching(kwargs) ==
    SelectSeq(tokens, LAMBDA r : \A k \in DOMAIN kwargs : r[k] = kwargs[k])

\* C30: findBy(fields) returns exactly the stored records for which every
\* supplied field equals the stored value, in stored order; the find-one
\* variant returns the first such record or nothing; neither changes the
\* collection.
C30_FindByExact ==
    [][/\ RepoServed("find_by") =>
             \A kwargs \in {last'.args[1]} :
                 /\ last'.ret = C30_Matching(kwargs)
                 /\ tokens' = tokens
       /\ RepoServed("find_one_by") =>
             \A kwargs \in {last'.args[1]} :
                 /\ last'.ret = IF C30_Matching(kwargs) = <<>> THEN <<>>
                                 ELSE <<Head(C30_Matching(kwargs))>>
                 /\ tokens' = tokens]_vars

\* a stored user carries a usable credential: a password hash, or a provider
\* tag other than "email" together with an external subject id
HasCredential(user) ==
    \/ user.password_hash # None
    \/ user.auth_provider # "email" /\ user.google_id # None

Taxonomy ==
    DuplicateEmail \cup WeakPassword \cup InvalidCredentials \cup AccountDeactivated
        \cup InvalidRefreshToken \cup RevokedRefreshToken \cup ExpiredRefreshToken
        \cup InvalidToken \cup NotFound

BoundTo(user, g) ==
    \/ g.sub # None /\ user.google_id = g.sub
    \/ user.email = g.email
\* the ids of the stored users, after the step, that the claim g identifies
BoundIds(g) == {users'[i].id : i \in {j \in DOMAIN users' : BoundTo(users'[j], g)}}

Returned_refresh(p) ==
    pc[p] = "done" /\ loc[p].op = "refresh" /\ loc[p].err = OK /\ Len(loc[p].ret) = 2
\* some call has presented the string s for redemption or logout
Presented(s) ==
    \E q \in Procs : loc[q].op \in {"refresh", "logout"} /\ loc[q].args = <<s>>

\* C34: every refresh token string returned to a caller by a successful
\* RefreshTokens is, when the call returns and until it is redeemed, the
\* string of a stored unrevoked RefreshToken record, also when other calls
\* that create or revoke refresh tokens run concurrently.
C34_ReturnedTokenStored ==
    \A p \in Procs :
        (Returned_refresh(p) /\ ~Presented(loc[p].ret[2])) =>
            \E i \in WithString(loc[p].ret[2]) : ~tokens[i].revoked

\* =========================== a profile update beside other calls on the user
\* PUT /users/me: get_current_user reads the bearer's user from users.json,
\* then the handler sets the request's fields on that object and passes it to
\* update_user; the store's update reads and writes the file in later steps
CUpdateProfile(p, user_id, request) ==
    LET user == get(users, user_id)
        started == [loc[p] EXCEPT !.op = "update_profile", !.args = <<user_id, request>>]
        named == IF request.name # None
                 THEN [Head(user) EXCEPT !.name = request.name] ELSE Head(user)
        current_user == IF request.preferred_units # None
                        THEN [named EXCEPT !.preferred_units = request.preferred_units]
                        ELSE named
        failed(err) ==
            /\ pc' = [pc EXCEPT ![p] = "done"]
            /\ loc' = [loc EXCEPT ![p] = [started EXCEPT !.err = err]]
    IN
    /\ pc[p] = "idle"
    /\ IF user = <<>> THEN failed(ErrUserNotFound)
       ELSE IF ~Head(user).is_active THEN failed(ErrDeactivated)
       ELSE IF request.preferred_units # None
               /\ request.preferred_units \notin {"metric", "imperial"}
       THEN failed(ErrBadUnits)
       ELSE /\ pc' = [pc EXCEPT ![p] = "update_read"]
            /\ loc' = [loc EXCEPT ![p] = [started EXCEPT !.repo = "users",
                                                         !.entity = <<current_user>>]]
    /\ UNCHANGED <<users, tokens, now, nextUid, nextTok, redeemed, steps, last, goals, divisions>>

ProfileNext ==
    \E p \in Procs :
        \/ \E u \in UserIds, q \in ProfileRequests : CUpdateProfile(p, u, q)
        \/ \E u \in UserIds, c \in ConcPasswords, n \in ConcPasswords :
              CChangePasswordGet(p, u, c, n)
        \/ CUpdateRead(p)
        \/ CUpdateWrite(p)

ProfileSpec == ConcInit /\ [][ProfileNext]_vars

\* the step in which handler p's profile update writes users.json
ProfileWrites(p) ==
    /\ pc[p] = "update_write"
    /\ loc[p].op = "update_profile"
    /\ pc'[p] = "done"
    /\ loc'[p].err = OK

\* C35: UpdateProfile changes only the name and unit preference (and update
\* timestamp) of the stored user: the password hash, active flag, email,
\* provider tag and external subject id in the store after the call equal
\* those in the store immediately before its write, even when a
\* ChangePassword of the same user completes between the request's
\* authentication read of the user and its write.
C35_ProfileKeepsCredentials ==
    [][\A p \in Procs :
          ProfileWrites(p) =>
              \A i \in DOMAIN users, j \in DOMAIN users' :
                  users[i].id = users'[j].id =>
                      /\ users'[j].password_hash = users[i].password_hash
                      /\ users'[j].is_active = users[i].is_active
                      /\ users'[j].email = users[i].email
                      /\ users'[j].auth_provider = users[i].auth_provider
                      /\ users'[j].google_id = users[i].google_id]_vars

\* C36: ChangePassword, UpdateProfile and Register never create, revoke or
\* otherwise modify a RefreshToken record: refresh tokens issued before a
\* password change remain redeemable after it.
C36_TokensUntouched ==
    [][/\ (Idle /\ last'.op \in {"change_password", "update_profile", "register"}) =>
              tokens' = tokens
       /\ (Served("change_password") /\ last'.err = OK) =>
              \A s \in TokenStrings :
                  refresh_access_token(s).err = OK => refresh_access_token(s)'.err = OK]_vars

\* C36 witness: a password has just been changed for a user who holds a
\* refresh token issued before, and RefreshTokens would accept that token.
C36_Witness ==
    /\ last.op = "change_password"
    /\ last.err = OK
    /\ \E i \in DOMAIN tokens :
          /\ tokens[i].user_id = last.args[1]
          /\ refresh_access_token(tokens[i].token).err = OK

\* ================================================== protected requests
ErrInvalidAccess == "Invalid or expired access token"

\* get_user_by_id: user_repo.get(user_id)
get_user_by_id(user_id) == get(users, user_id)

\* get_current_user: the error, or the user the request runs as
get_current_user(token, t) ==
    LET user_id == decode_access_token(token, t) IN
    IF user_id.exc # None THEN [err |-> user_id.exc, ret |-> <<>>]
    ELSE IF user_id.value = <<>> THEN [err |-> ErrInvalidAccess, ret |-> <<>>]
    ELSE LET user == get_user_by_id(Head(user_id.value)) IN
         IF user = <<>> THEN [err |-> ErrUserNotFound, ret |-> <<>>]
         ELSE IF ~Head(user).is_active THEN [err |-> ErrDeactivated, ret |-> <<>>]
         ELSE [err |-> OK, ret |-> user]

\* the access tokens issued so far: login_user makes one together with each
\* refresh token, for the same user at the same time
IssuedAccess ==
    {create_access_token(tokens[i].user_id, tokens[i].expires_at - RefreshLifetime) :
        i \in DOMAIN tokens}

\* a protected request presents a bearer token
GetCurrentUser(token) ==
    LET r == get_current_user(token, now) IN
    /\ Idle
    /\ last' = Call("get_current_user", <<token>>, r.err, r.ret)
    /\ UNCHANGED <<users, tokens, now, nextUid, nextTok, redeemed, steps, pc, loc, goals, divisions>>

\* the clock advances within and past an access token's lifetime
AccessTick ==
    /\ Idle
    /\ steps < MaxSteps
    /\ \E t \in TokenInstants : t > now /\ now' = t
    /\ steps' = steps + 1
    /\ UNCHANGED <<users, tokens, nextUid, nextTok, redeemed, last, pc, loc, goals, divisions>>

AccessNext ==
    \/ \E e \in Emails, p \in ConcPasswords, n \in Names : Register(e, p, n)
    \/ \E e \in Emails, p \in ConcPasswords : Login(e, p)
    \/ \E u \in UserIds : DeleteAccount(u)
    \/ \E u \in UserIds : Deactivate(u)
    \/ \E token \in IssuedAccess : GetCurrentUser(token)
    \/ Respond
    \/ AccessTick

AccessSpec == Init /\ [][AccessNext]_vars

\* the token is one that decodes to user id u at time t: signed with the
\* service's key, of type access, not past its exp, its subject u's string
DecodesTo(token, u, t) ==
    /\ token.key = settings.jwt_secret_key
    /\ token.type = "access"
    /\ ~(token.exp < t)
    /\ token.sub = uuid_str(u)

\* C37: a protected request authenticates as user u only if the presented
\* access token decodes to u's id and, at that moment, u's record exists in
\* the user store and is active; after DeleteAccount(u) or deactivation of u,
\* access tokens issued earlier for u no longer authenticate any request even
\* though they are unexpired.
C37_AuthenticatesStoredActive ==
    [][Served("get_current_user") =>
          \A token \in {last'.args[1]} :
              last'.err = OK =>
                  /\ Len(last'.ret) = 1
                  /\ DecodesTo(token, last'.ret[1].id, now)
                  /\ \E i \in DOMAIN users :
                        /\ users[i] = last'.ret[1]
                        /\ users[i].is_active]_vars

\* C37 witness: a request has just presented an unexpired access token that
\* was issued for a user whose account has since been deleted, and was
\* refused.
C37_Witness ==
    /\ last.op = "get_current_user"
    /\ last.err = ErrUserNotFound
    /\ ~(last.args[1].exp < now)
    /\ last.args[1] \in IssuedAccess
    /\ \A i \in DOMAIN users : uuid_str(users[i].id) # last.args[1].sub

\* ================================================================ goals
\* The goal routes applied on their own to goals.json, for requests that
\* get_current_user has authenticated as one of two users.

GoalUsers == {1, 2}
ActivityType == {"running", "strength"}
GoalPeriod == {"weekly", "monthly"}
\* bodies of POST /goals: GoalCreate's activity_type and period are strings
GoalCreates ==
    {[activity_type |-> a, target_frequency |-> 3, period |-> q] :
        a \in ActivityType \cup {"cycling"}, q \in GoalPeriod \cup {"daily"}}
\* bodies of PUT /goals/{goal_id}: every field is optional; is_active is
\* <<>> when left out, else the flag
GoalUpdates ==
    {[target_frequency |-> None, period |-> q, is_active |-> a] :
        q \in GoalPeriod \cup {None}, a \in {<<>>, <<TRUE>>, <<FALSE>>}}

ErrActivityType == "Invalid activity type"
ErrPeriod == "Invalid period"
ErrGoalExists == "You already have an active goal"
ErrGoalNotFound == "Goal not found"
ErrNotAuthorized == "Not authorized"

Goal(id, user_id, activity_type, target_frequency, period, t) ==
    [id |-> id, user_id |-> user_id, activity_type |-> activity_type,
     target_frequency |-> target_frequency, period |-> period, is_active |-> TRUE,
     updated_at |-> t]

\* create_goal: the error, the goals after the request and the goal returned
create_goal(user_id, request) ==
    IF request.activity_type \notin ActivityType
    THEN [err |-> ErrActivityType, goals |-> goals, ret |-> <<>>]
    ELSE IF request.period \notin GoalPeriod
    THEN [err |-> ErrPeriod, goals |-> goals, ret |-> <<>>]
    ELSE LET existing_goals == find_by(goals, [user_id |-> user_id]) IN
         IF \E k \in DOMAIN existing_goals :
               /\ existing_goals[k].activity_type = request.activity_type
               /\ existing_goals[k].period = request.period
               /\ existing_goals[k].is_active
         THEN [err |-> ErrGoalExists, goals |-> goals, ret |-> <<>>]
         ELSE LET goal == Goal(nextUid + 1, user_id, request.activity_type,
                               request.target_frequency, request.period, now)
              IN [err |-> OK, goals |-> create(goals, goal), ret |-> <<goal>>]

\* update_goal: the goal is built anew from the stored one and the request's
\* fields and handed to the store's update
update_goal(user_id, goal_id, request) ==
    LET goal == get(goals, goal_id) IN
    IF goal = <<>> THEN [err |-> ErrGoalNotFound, goals |-> goals, ret |-> <<>>]
    ELSE IF Head(goal).user_id # user_id
    THEN [err |-> ErrNotAuthorized, goals |-> goals, ret |-> <<>>]
    ELSE LET updated_goal ==
                 [Head(goal) EXCEPT
                     !.target_frequency = IF request.target_frequency # None
                                          THEN request.target_frequency ELSE @,
                     !.period = IF request.period # None THEN request.period ELSE @,
                     !.is_active = IF request.is_active # <<>>
                                   THEN Head(request.is_active) ELSE @]
         IN [err |-> OK, goals |-> update(goals, updated_goal, now),
             ret |-> <<Stamped(updated_goal, now)>>]

\* delete_goal
delete_goal(user_id, goal_id) ==
    LET goal == get(goals, goal_id) IN
    IF goal = <<>> THEN [err |-> ErrGoalNotFound, goals |-> goals, ret |-> <<>>]
    ELSE IF Head(goal).user_id # user_id
    THEN [err |-> ErrNotAuthorized, goals |-> goals, ret |-> <<>>]
    ELSE [err |-> OK, goals |-> delete(goals, goal_id), ret |-> <<>>]

GoalDone(op, args, r) ==
    /\ goals' = r.goals
    /\ last' = Call(op, args, r.err, r.ret)
    /\ UNCHANGED <<users, tokens, now, nextTok, redeemed, steps, pc, loc, divisions>>

\* POST /goals; the goal's id is a fresh uuid4 draw
CreateGoal(user_id, request) ==
    LET r == create_goal(user_id, request) IN
    /\ nextUid < MaxGoals
    /\ nextUid' = IF r.err = OK THEN nextUid + 1 ELSE nextUid
    /\ GoalDone("create_goal", <<user_id, request>>, r)

\* PUT /goals/{goal_id}
UpdateGoal(user_id, goal_id, request) ==
    /\ UNCHANGED nextUid
    /\ GoalDone("update_goal", <<user_id, goal_id, request>>,
                update_goal(user_id, goal_id, request))

\* DELETE /goals/{goal_id}
DeleteGoal(user_id, goal_id) ==
    /\ UNCHANGED nextUid
    /\ GoalDone("delete_goal", <<user_id, goal_id>>, delete_goal(user_id, goal_id))

GoalNext ==
    \/ \E u \in GoalUsers, q \in GoalCreates : CreateGoal(u, q)
    \/ \E u \in GoalUsers, g \in UserIds, q \in GoalUpdates : UpdateGoal(u, g, q)
    \/ \E u \in GoalUsers, g \in UserIds : DeleteGoal(u, g)

GoalSpec == Init /\ [][GoalNext]_vars

\* C38: after any sequence of goal create, update and delete requests, a
\* user never has two active goals with the same activity type and period.
C38_OneActiveGoal ==
    \A i, j \in DOMAIN goals :
        (/\ i # j
         /\ goals[i].user_id = goals[j].user_id
         /\ goals[i].is_active
         /\ goals[j].is_active
         /\ goals[i].activity_type = goals[j].activity_type) =>
            goals[i].period # goals[j].period

\* ===================================================== workout divisions
\* The division routes on workout_divisions.json, for requests that
\* get_current_user has authenticated; as in ConcSpec each handler serves
\* one request, cut at the store's file reads and writes.

\* create_division's limit
MaxDivisions == 5
DivisionUsers == {1, 2}
\* bodies of PUT /strength/divisions/{division_id}: every field is optional;
\* is_active is <<>> when left out, else the flag
DivisionUpdates ==
    {[name |-> "Treino B", is_active |-> <<>>], [name |-> None, is_active |-> <<FALSE>>]}

ErrMaxDivisions == "Maximum 5 workout divisions allowed"
ErrDivisionNotFound == "Division not found"
ErrAccessDenied == "Access denied"

WorkoutDivision(id, user_id, name, order, t) ==
    [id |-> id, user_id |-> user_id, name |-> name, is_active |-> TRUE, order |-> order,
     updated_at |-> t]

\* the request of handler p begins
Begun(p, op, args) == [loc[p] EXCEPT !.op = op, !.args = args]

\* the request ends before any write
Refused(p, op, args, err) ==
    /\ pc' = [pc EXCEPT ![p] = "done"]
    /\ loc' = [loc EXCEPT ![p] = [Begun(p, op, args) EXCEPT !.err = err]]

\* create_division up to its create: find_by reads the file and the number of
\* the user's divisions is tested; the new division's id is a uuid4 draw
DCreateCheck(p, user_id, name) ==
    LET existing == find_by(divisions, [user_id |-> user_id]) IN
    /\ pc[p] = "idle"
    /\ IF Len(existing) >= MaxDivisions
       THEN /\ Refused(p, "create_division", <<user_id, name>>, ErrMaxDivisions)
            /\ UNCHANGED nextUid
       ELSE /\ pc' = [pc EXCEPT ![p] = "create_read"]
            /\ loc' = [loc EXCEPT ![p] =
                    [Begun(p, "create_division", <<user_id, name>>) EXCEPT
                        !.entity = <<WorkoutDivision(nextUid + 1, user_id, name, 0, now)>>]]
            /\ nextUid' = nextUid + 1
    /\ UNCHANGED <<users, tokens, now, nextTok, redeemed, steps, last, goals, divisions>>

\* update_division up to its update: get reads the file
DUpdateGet(p, user_id, division_id, request) ==
    LET division == get(divisions, division_id)
        args == <<user_id, division_id, request>>
        named == IF request.name # None
                 THEN [Head(division) EXCEPT !.name = request.name] ELSE Head(division)
        changed == IF request.is_active # <<>>
                   THEN [named EXCEPT !.is_active = Head(request.is_active)] ELSE named
    IN
    /\ pc[p] = "idle"
    /\ IF division = <<>> THEN Refused(p, "update_division", args, ErrDivisionNotFound)
       ELSE IF Head(division).user_id # user_id
       THEN Refused(p, "update_division", args, ErrAccessDenied)
       ELSE /\ pc' = [pc EXCEPT ![p] = "update_read"]
            /\ loc' = [loc EXCEPT ![p] =
                    [Begun(p, "update_division", args) EXCEPT !.entity = <<changed>>]]
    /\ UNCHANGED <<users, tokens, now, nextUid, nextTok, redeemed, steps, last, goals, divisions>>

\* delete_division up to its delete: get reads the file
DDeleteGet(p, user_id, division_id) ==
    LET division == get(divisions, division_id)
        args == <<user_id, division_id>>
    IN
    /\ pc[p] = "idle"
    /\ IF division = <<>> THEN Refused(p, "delete_division", args, ErrDivisionNotFound)
       ELSE IF Head(division).user_id # user_id
       THEN Refused(p, "delete_division", args, ErrAccessDenied)
       ELSE /\ pc' = [pc EXCEPT ![p] = "delete_read"]
            /\ loc' = [loc EXCEPT ![p] = Begun(p, "delete_division", args)]
    /\ UNCHANGED <<users, tokens, now, nextUid, nextTok, redeemed, steps, last, goals, divisions>>

\* JsonRepository.create, update, delete: records = self._read_all()
DRead(p) ==
    /\ pc[p] \in {"create_read", "update_read", "delete_read"}
    /\ pc' = [pc EXCEPT ![p] = IF pc[p] = "create_read" THEN "create_write"
                                ELSE IF pc[p] = "update_read" THEN "update_write"
                                ELSE "delete_write"]
    /\ loc' = [loc EXCEPT ![p].records = divisions]
    /\ UNCHANGED <<users, tokens, now, nextUid, nextTok, redeemed, steps, last, goals, divisions>>

\* JsonRepository.create: the entity is appended to the list read before and
\* the list is written
DCreateWrite(p) ==
    /\ pc[p] = "create_write"
    /\ divisions' = create(loc[p].records, Head(loc[p].entity))
    /\ Finish(p, OK, loc[p].entity)
    /\ UNCHANGED <<users, tokens, now, nextUid, nextTok, redeemed, steps, last, goals>>

\* JsonRepository.update: the record is replaced in the list read before and
\* the list is written, or ValueError is raised
DUpdateWrite(p) ==
    /\ pc[p] = "update_write"
    /\ IF CanUpdate(loc[p].records, Head(loc[p].entity))
       THEN /\ divisions' = update(loc[p].records, Head(loc[p].entity), now)
            /\ Finish(p, OK, <<Stamped(Head(loc[p].entity), now)>>)
       ELSE /\ UNCHANGED divisions
            /\ Finish(p, "ValueError", <<>>)
    /\ UNCHANGED <<users, tokens, now, nextUid, nextTok, redeemed, steps, last, goals>>

\* JsonRepository.delete: the list read before, without the records of the
\* id, is written if it became shorter
DDeleteWrite(p) ==
    LET records == delete(loc[p].records, loc[p].args[2]) IN
    /\ pc[p] = "delete_write"
    /\ IF Len(records) < Len(loc[p].records)
       THEN divisions' = records
       ELSE UNCHANGED divisions
    /\ Finish(p, OK, <<>>)
    /\ UNCHANGED <<users, tokens, now, nextUid, nextTok, redeemed, steps, last, goals>>

\* the store after four POST /strength/divisions of user 1
DivisionInit ==
    /\ users = <<>>
    /\ tokens = <<>>
    /\ now = 0
    /\ nextUid = MaxDivisions - 1
    /\ nextTok = 0
    /\ redeemed = {}
    /\ steps = MaxDivisions - 1
    /\ last = Call("idle", <<>>, OK, <<>>)
    /\ pc = [p \in Procs |-> "idle"]
    /\ loc = [p \in Procs |-> NoLocals]
    /\ goals = <<>>
    /\ divisions = [i \in 1 .. MaxDivisions - 1 |-> WorkoutDivision(i, 1, "Treino A", 0, 0)]

DivisionNext ==
    \E p \in Procs :
        \/ \E u \in DivisionUsers : DCreateCheck(p, u, "Treino C")
        \/ \E u \in DivisionUsers, d \in {1, MaxDivisions}, q \in DivisionUpdates :
              DUpdateGet(p, u, d, q)
        \/ \E u \in DivisionUsers, d \in {1, MaxDivisions} : DDeleteGet(p, u, d)
        \/ DRead(p)
        \/ DCreateWrite(p)
        \/ DUpdateWrite(p)
        \/ DDeleteWrite(p)

DivisionSpec == DivisionInit /\ [][DivisionNext]_vars

\* C39: a user never has more than 5 workout divisions, after any sequence
\* or interleaving of that user's division create, update and delete
\* requests.
C39_AtMostFiveDivisions ==
    \A u \in DivisionUsers : Len(find_by(divisions, [user_id |-> u])) <= MaxDivisions

====
